---- MODULE Spec2Model ----
(***************************************************************************)
(* Memory-hall view (src/js/threejs/DetailView.js) and its loading screen  *)
(* (src/js/threejs/LoadingScreen.js) as state machines, with the media     *)
(* dialog (src/js/OrbModal.js).                                            *)
(*                                                                         *)
(* The module holds several specifications over one set of variables; each *)
(* specification drives one part of the program and leaves the variables   *)
(* of the other parts at their constructor values:                         *)
(*   SpecBoundary  the movement-boundary test against the built floor      *)
(*   SpecNav       updateCamera, key handlers                              *)
(*   SpecMouse     onMouseDown / onMouseMove / onMouseUp                   *)
(*   SpecProbe     loadSlideshowImages                                     *)
(*   SpecLife      show / hide / dispose / animate, the image card, timers *)
(*   SpecMedia     one orb's video, image probe, slideshow and crossfades  *)
(*   SpecShow      show() together with the media of the hall it builds,   *)
(*                 under fair timers                                       *)
(*   SpecDrift     the friction line of updateCamera on the smallest       *)
(*                 doubles                                                 *)
(*   SpecGpu       what the teardown paths call dispose() on               *)
(*   SpecOrbs      createMemoryOrbs' orb list and showOrbContent's lookup  *)
(*   SpecGlow      animate's pulse over the glowing edges, frames forever  *)
(*   SpecLook      look drags across the whole window                      *)
(*   SpecScene     what init, cleanupSceneContent and the hall build do to *)
(*                 the scene graph over show() calls                       *)
(*   SpecHide      show / hide with the record of a hide() in effect       *)
(*   SpecCard      orb clicks and the media cards in the hall container    *)
(*   SpecModal     OrbModal: open / close / showNext / showPrev            *)
(*   SpecProgress  the progress reports of one show() call                 *)
(*                                                                         *)
(* Lengths are in thousandths of a scene unit, velocities in thousandths   *)
(* of a unit per second, angles in micro-radians, pointer positions in     *)
(* pixels.                                                                 *)
(***************************************************************************)
EXTENDS Integers, Sequences, FiniteSets, TLC

VARIABLES
  \* ---- navigation (constructor lines 24-34, camera of init line 79)
  camX, camZ,          \* camera.position.x / .z
  velX, velZ,          \* cameraVelocity.x / .z
  keys,                \* this.keys
  rotX, rotY,          \* cameraRotation.x (pitch) / .y (yaw)
  frame,               \* what the last updateCamera call saw and did
  navFrames, navInputs,\* how many frames / input events have run (bounded)
  \* ---- boundary probe
  probe,               \* the last point handed to both containment tests
  \* ---- pointer
  isMouseDown, lastMouse, mouseDown,
  press,               \* the pointer itself: is a button held, where it went down
  lastUp,              \* what the last onMouseUp call saw and did
  \* ---- slideshow probe (closure state of loadSlideshowImages)
  fsPresent,           \* indices i for which <folder>/<cardKey>/<i>.jpg exists
  probePc, probeI, probeImages, probeRequested,
  \* ---- life cycle: show / hide / dispose / animate
  controlsOn,          \* addControls has attached the listeners
  hasDom,              \* this.container, this.scene, this.renderer are set
  isActive,            \* this.isActive
  shown,               \* container.style.display is 'block'
  hall,                \* "none" or "built": the hall objects in the scene
  portfolioData,       \* this.portfolioData is set
  animationFrameId,    \* this.animationFrameId, 0 for null
  rafPending,          \* ids of the animate requests the browser holds
  calls,               \* the show() calls: position, timer, loading screen
  hideDue,             \* timers of hide()'s delayed step, oldest first
  cardLoads,           \* tryLoadMedia requests not answered yet
  cardOpen,            \* media cards on screen
  closeDue,            \* timers of the card close handler, oldest first
  thrown,              \* where an exception was raised so far
  envCalls,            \* how many calls the host and the user have made (bounded)
  \* ---- media of one orb (closure state of createOrb, its record in this.orbs)
  orb,                 \* the orb, its media element, its timers
  fades,               \* the crossfade intervals that are running, oldest first
  \* ---- friction at the low end of the double range
  drift,               \* cameraVelocity in units of 2^-1074, and its history
  \* ---- GPU-side resources of the hall
  gpu,                 \* dispose() calls on the hall's textures and materials
  \* ---- the orb list
  orbs,                \* this.orbs: card key and place of each orb, in order
  orbBuilds,           \* how many times createMemoryOrbs has run (bounded)
  picked,              \* what the last showOrbContent call resolved
  \* ---- edge glow
  glow,                \* this.time in frames, and the opacity of each edge
  \* ---- the scene graph
  scene,               \* what this.scene holds, and what the view still points to
  \* ---- history
  hideInEffect,        \* hide()'s delayed step has run, show() was not called since
  \* ---- media cards in the hall container
  cardDom,             \* the elements each showImageCard call attached, oldest first
  \* ---- OrbModal
  modal,               \* isOpen, currentImages, currentIndex, pending content clears
  \* ---- loading progress of one show() call
  progress             \* the closure's counter, and what setProgress was last given

navVars   == <<camX, camZ, velX, velZ, keys, rotX, rotY, frame, navFrames, navInputs>>
bndVars   == <<probe>>
mouseVars == <<isMouseDown, lastMouse, mouseDown, press, lastUp>>
probeVars == <<fsPresent, probePc, probeI, probeImages, probeRequested>>
lifeRest  == <<hasDom, isActive, shown, hall, portfolioData, animationFrameId,
               rafPending, calls, hideDue, cardLoads, cardOpen, closeDue, thrown,
               envCalls>>
lifeVars  == <<controlsOn, lifeRest>>
mediaVars == <<orb, fades>>
orbVars   == <<orbs, orbBuilds, picked>>
lateVars  == <<scene, hideInEffect, cardDom, modal, progress>>
extVars   == <<drift, gpu, orbVars, glow, lateVars>>
vars      == <<navVars, bndVars, mouseVars, probeVars, lifeVars, mediaVars, extVars>>

----------------------------------------------------------------------------
(* Arithmetic helpers *)

Abs(n) == IF n < 0 THEN -n ELSE n

\* Division rounding toward zero: the fixed-point image of a float product.
TruncDiv(a, b) == IF a >= 0 THEN a \div b ELSE -((-a) \div b)

Scale == 10 * 100

----------------------------------------------------------------------------
(* Layout: the two copies of the layout scalars *)

\* createTShapedFloor, "Dimensions"
FloorMainCorridorWidth  == 16
FloorMainCorridorLength == 80
FloorTBarWidth          == 70
FloorTBarLength         == 12
FloorEntranceExtension  == 35

\* updateCamera, "T-shaped floor dimensions (must match createTShapedFloor)"
MoveMainCorridorWidth   == 16
MoveMainCorridorLength  == 80
MoveTBarWidth           == 60
MoveTBarLength          == 12
MoveMarginMilli         == 500    \* margin = 0.5, in thousandths
DefaultEntranceExtension == 35    \* isInsideTShapedFloor's default argument

\* The three floor meshes createTShapedFloor pushes to floorPieces: a
\* PlaneGeometry(width, length) laid flat and centred at (0, cz).
\* Widths, lengths and centres in thousandths.
FloorPieces ==
  LET entranceBackZ == 10 + FloorEntranceExtension
      entranceZ     == 10
      junctionZ     == -FloorMainCorridorLength + 10
  IN { [name |-> "entranceFloor",
        w |-> FloorMainCorridorWidth * Scale, l |-> FloorEntranceExtension * Scale,
        cz |-> ((entranceBackZ + entranceZ) * Scale) \div 2],
       [name |-> "mainFloor",
        w |-> FloorMainCorridorWidth * Scale, l |-> FloorMainCorridorLength * Scale,
        cz |-> ((entranceZ + junctionZ) * Scale) \div 2],
       [name |-> "tBarFloor",
        w |-> FloorTBarWidth * Scale, l |-> FloorTBarLength * Scale,
        cz |-> junctionZ * Scale - (FloorTBarLength * Scale) \div 2] }

\* (x, z) lies on the plane mesh p (edges included).
OnPiece(x, z, p) == /\ 2 * Abs(x) <= p.w
                    /\ 2 * Abs(z - p.cz) <= p.l

\* (x, z) lies on the visible floor.
OnFloor(x, z) == \E p \in FloorPieces : OnPiece(x, z, p)

\* isInsideTShapedFloor(x, z, mainWidth, mainLength, tBarWidth, tBarLength).
\* x, z, the widths and the lengths are in thousandths.
isInsideTShapedFloor(x, z, mainWidth, mainLength, tBarWidth, tBarLength) ==
  LET mainHalfWidth == mainWidth \div 2
      entranceBackZ == (10 + DefaultEntranceExtension) * Scale
      entranceZ     == 10 * Scale
      junctionZ     == -mainLength + 10 * Scale
      tBarHalfWidth == tBarWidth \div 2
      tBarBackZ     == junctionZ - tBarLength
  IN \/ (z >= entranceZ /\ z <= entranceBackZ /\ x >= -mainHalfWidth /\ x <= mainHalfWidth)
     \/ (z >= junctionZ /\ z <= entranceZ /\ x >= -mainHalfWidth /\ x <= mainHalfWidth)
     \/ (z >= tBarBackZ /\ z <= junctionZ /\ x >= -tBarHalfWidth /\ x <= tBarHalfWidth)

\* The test exactly as updateCamera calls it (three call sites, same arguments):
\* isInsideTShapedFloor(x, z, mainCorridorWidth - margin * 2, mainCorridorLength,
\*                      tBarWidth - margin * 2, tBarLength)
MoveAccepts(x, z) ==
  isInsideTShapedFloor(x, z,
    MoveMainCorridorWidth * Scale - MoveMarginMilli * 2,
    MoveMainCorridorLength * Scale,
    MoveTBarWidth * Scale - MoveMarginMilli * 2,
    MoveTBarLength * Scale)

----------------------------------------------------------------------------
(* SpecBoundary: one point at a time is handed to the movement test and to  *)
(* the containment test of the built floor.                                 *)

GridHalfX == 37          \* probe points span x in [-GridHalfX, GridHalfX] units
GridFrontZ == 46         \* ... and z in [-GridBackZ, GridFrontZ] units,
GridBackZ == 83          \* in steps of half a unit

NoProbe == [tested |-> FALSE, x |-> 0, z |-> 0, accepted |-> FALSE, onFloor |-> FALSE]

TestPoint ==
  /\ ~probe.tested
  /\ \E xh \in (-2 * GridHalfX)..(2 * GridHalfX), zh \in (-2 * GridBackZ)..(2 * GridFrontZ) :
      LET x == xh * (Scale \div 2)
          z == zh * (Scale \div 2)
      IN probe' = [tested |-> TRUE, x |-> x, z |-> z,
                   accepted |-> MoveAccepts(x, z), onFloor |-> OnFloor(x, z)]

----------------------------------------------------------------------------
(* Navigation: key handlers and updateCamera *)

MoveSpeed     == 40      \* this.moveSpeed
DeltaTimeMs   == 16      \* deltaTime = 0.016 s
FrictionPct   == 92      \* multiplyScalar(0.92)

KeyCodes == {"KeyW", "ArrowUp", "KeyS", "ArrowDown", "KeyA", "ArrowLeft",
             "KeyD", "ArrowRight", "Space"}

NoKeys == [forward |-> FALSE, backward |-> FALSE, left |-> FALSE, right |-> FALSE]

\* The switch of onKeyDown (down = TRUE) and onKeyUp (down = FALSE).
KeySwitch(k, code, down) ==
  CASE code \in {"KeyW", "ArrowUp"}    -> [k EXCEPT !.forward = down]
    [] code \in {"KeyS", "ArrowDown"}  -> [k EXCEPT !.backward = down]
    [] code \in {"KeyA", "ArrowLeft"}  -> [k EXCEPT !.left = down]
    [] code \in {"KeyD", "ArrowRight"} -> [k EXCEPT !.right = down]
    [] OTHER -> k

\* Angles the model can look at, in micro-radians, with cosine and sine in
\* thousandths.
Pi2 == 1570796           \* Math.PI / 2
YawTable   == {0, 785398, Pi2, -Pi2}
PitchTable == {0, 1047198, Pi2}

CosMilli(a) == CASE a = 0 -> 1000 [] a = 785398 -> 707 [] a = -785398 -> 707
                 [] a = 1047198 -> 500 [] a = -1047198 -> 500
                 [] a = Pi2 -> 0 [] a = -Pi2 -> 0 [] OTHER -> 1000
SinMilli(a) == CASE a = 0 -> 0 [] a = 785398 -> 707 [] a = -785398 -> -707
                 [] a = 1047198 -> 866 [] a = -1047198 -> -866
                 [] a = Pi2 -> 1000 [] a = -Pi2 -> -1000 [] OTHER -> 0

\* direction: the key vector, normalised, turned by the camera quaternion
\* (rotation order YXZ: pitch about X, then yaw about Y), y dropped.
\* Result in thousandths.
Direction(k, yaw, pitch) ==
  LET dx == (IF k.right THEN 1 ELSE 0) - (IF k.left THEN 1 ELSE 0)
      dz == (IF k.backward THEN 1 ELSE 0) - (IF k.forward THEN 1 ELSE 0)
      n  == IF dx # 0 /\ dz # 0 THEN 707 ELSE 1000
      nx == dx * n
      nz == TruncDiv(dz * n * CosMilli(pitch), Scale)
  IN [moving |-> (dx # 0 \/ dz # 0),
      x |-> TruncDiv(nx * CosMilli(yaw) + nz * SinMilli(yaw), Scale),
      z |-> TruncDiv(nz * CosMilli(yaw) - nx * SinMilli(yaw), Scale)]

\* updateCamera lines 3752-3765: accelerate along direction, then friction.
Accelerate(vx, vz, k, yaw, pitch) ==
  LET d  == Direction(k, yaw, pitch)
      ax == IF d.moving THEN vx + TruncDiv(d.x * MoveSpeed * DeltaTimeMs, Scale) ELSE vx
      az == IF d.moving THEN vz + TruncDiv(d.z * MoveSpeed * DeltaTimeMs, Scale) ELSE vz
  IN [x |-> TruncDiv(ax * FrictionPct, 100), z |-> TruncDiv(az * FrictionPct, 100)]

\* A mutation of SlideResolve: the wall-slide branches stop the axis that
\* moved instead of the axis that was blocked.
SlideResolveStopsWrongAxis(prevX, prevZ, newX, newZ, vx, vz) ==
  IF MoveAccepts(newX, newZ)
  THEN [x |-> newX, z |-> newZ, vx |-> vx, vz |-> vz]
  ELSE IF MoveAccepts(newX, prevZ)
  THEN [x |-> newX, z |-> prevZ, vx |-> 0, vz |-> vz]
  ELSE IF MoveAccepts(prevX, newZ)
  THEN [x |-> prevX, z |-> newZ, vx |-> vx, vz |-> 0]
  ELSE [x |-> prevX, z |-> prevZ, vx |-> 0, vz |-> 0]

\* A mutation of SlideResolve: in the corner, where no axis is free, the
\* camera stays but the velocity is kept.
SlideResolveCornerKeepsSpeed(prevX, prevZ, newX, newZ, vx, vz) ==
  IF MoveAccepts(newX, newZ)
  THEN [x |-> newX, z |-> newZ, vx |-> vx, vz |-> vz]
  ELSE IF MoveAccepts(newX, prevZ)
  THEN [x |-> newX, z |-> prevZ, vx |-> vx, vz |-> 0]
  ELSE IF MoveAccepts(prevX, newZ)
  THEN [x |-> prevX, z |-> newZ, vx |-> 0, vz |-> vz]
  ELSE [x |-> prevX, z |-> prevZ, vx |-> vx, vz |-> vz]

\* A mutation of SlideResolve: a rejected candidate slides along X without
\* the X-only position being tested.
SlideResolveSlidesUntested(prevX, prevZ, newX, newZ, vx, vz) ==
  IF MoveAccepts(newX, newZ)
  THEN [x |-> newX, z |-> newZ, vx |-> vx, vz |-> vz]
  ELSE [x |-> newX, z |-> prevZ, vx |-> vx, vz |-> 0]

\* updateCamera lines 3782-3803: commit the candidate, or slide, or stop.
SlideResolve(prevX, prevZ, newX, newZ, vx, vz) ==
  IF MoveAccepts(newX, newZ)
  THEN [x |-> newX, z |-> newZ, vx |-> vx, vz |-> vz]
  ELSE IF MoveAccepts(newX, prevZ)
  THEN [x |-> newX, z |-> prevZ, vx |-> vx, vz |-> 0]
  ELSE IF MoveAccepts(prevX, newZ)
  THEN [x |-> prevX, z |-> newZ, vx |-> 0, vz |-> vz]
  ELSE [x |-> prevX, z |-> prevZ, vx |-> 0, vz |-> 0]

NoFrame == [valid |-> FALSE, prevX |-> 0, prevZ |-> 0, newX |-> 0, newZ |-> 0,
            vx |-> 0, vz |-> 0]

\* updateCamera(deltaTime), whole.  The camera height never changes (nothing
\* writes position.y but the clamp to [2, 30], and it starts at 5).
updateCamera ==
  LET v    == Accelerate(velX, velZ, keys, rotY, rotX)
      newX == camX + TruncDiv(v.x * DeltaTimeMs, Scale)
      newZ == camZ + TruncDiv(v.z * DeltaTimeMs, Scale)
      r    == SlideResolve(camX, camZ, newX, newZ, v.x, v.z)
  IN /\ camX' = r.x /\ camZ' = r.z
     /\ velX' = r.vx /\ velZ' = r.vz
     /\ frame' = [valid |-> TRUE, prevX |-> camX, prevZ |-> camZ,
                  newX |-> newX, newZ |-> newZ, vx |-> v.x, vz |-> v.z]

MaxNavFrames == 2        \* frames per run
MaxNavInputs == 2        \* key / look events per run

\* One animation frame, as far as the camera goes (animate line 3918).
NavFrame ==
  /\ navFrames < MaxNavFrames
  /\ navFrames' = navFrames + 1
  /\ updateCamera
  /\ UNCHANGED <<keys, rotX, rotY, navInputs>>

onKeyDown ==
  \E code \in KeyCodes :
    /\ navInputs < MaxNavInputs
    /\ navInputs' = navInputs + 1
    /\ keys' = KeySwitch(keys, code, TRUE)
    /\ UNCHANGED <<camX, camZ, velX, velZ, rotX, rotY, frame, navFrames>>

onKeyUp ==
  \E code \in KeyCodes :
    /\ navInputs < MaxNavInputs
    /\ navInputs' = navInputs + 1
    /\ keys' = KeySwitch(keys, code, FALSE)
    /\ UNCHANGED <<camX, camZ, velX, velZ, rotX, rotY, frame, navFrames>>

\* The net effect of a look drag (onMouseMove calls while the button is
\* held): the camera ends at one of the tabulated angles.
LookTo ==
  \E yaw \in YawTable, pitch \in PitchTable :
    /\ navInputs < MaxNavInputs
    /\ navInputs' = navInputs + 1
    /\ rotY' = yaw /\ rotX' = pitch
    /\ UNCHANGED <<camX, camZ, velX, velZ, keys, frame, navFrames>>

\* Where a run starts: the spawn point of show(), and points next to each
\* kind of wall, standing or walking.
StartPoints == { <<0, 30000>>, <<7450, 0>>, <<7450, -69950>>,
                 <<-29450, -81950>>, <<0, 44950>>, <<-7450, 10000>> }
StartSpeeds == { -6000, 0, 6000 }

----------------------------------------------------------------------------
(* Friction at the low end of the double range.                             *)
(* cameraVelocity holds IEEE doubles.  Below 2^-1022 a double is a whole     *)
(* number of units of 2^-1074, and the product of such a number with 0.92   *)
(* is rounded to the nearest whole number of units (92 k is never an odd    *)
(* multiple of 50, so no tie occurs).  Every run of frames without input    *)
(* brings the velocity into this range, the position no longer changes      *)
(* there (position + velocity * 0.016 rounds to the position), and the      *)
(* boundary test keeps accepting it.                                        *)

MaxTiny == 1000          \* largest starting component, in units of 2^-1074
MaxDriftFrames == 61     \* frames per run

\* A mutation of multiplyScalar: the product is rounded away from zero.
multiplyScalarRoundsUp(k) ==
  IF k >= 0 THEN (k * FrictionPct + 99) \div 100
            ELSE -(((-k) * FrictionPct + 99) \div 100)

\* Vector3.multiplyScalar(0.92) on one component of k units.
multiplyScalar(k) ==
  IF k >= 0 THEN (k * FrictionPct + 50) \div 100
            ELSE -(((-k) * FrictionPct + 50) \div 100)

NoDrift == [x |-> 0, z |-> 0, valid |-> FALSE, px |-> 0, pz |-> 0,
            x0 |-> 0, z0 |-> 0, n |-> 0]

\* Components a run starts with: some value of the range, of either sign.
DriftStarts == {-MaxTiny, -8, -1, 0, 1, 6, 7, MaxTiny \div 10, MaxTiny}

\* One frame of updateCamera with no direction key held: the velocity is
\* not accelerated, friction is applied, the candidate position is the
\* position and is accepted.
driftFrame ==
  /\ ~Direction(keys, rotY, rotX).moving
  /\ drift.n < MaxDriftFrames
  /\ drift' = [drift EXCEPT !.x = multiplyScalar(drift.x),
                            !.z = multiplyScalar(drift.z),
                            !.valid = TRUE, !.px = drift.x, !.pz = drift.z,
                            !.n = drift.n + 1]

----------------------------------------------------------------------------
(* Pointer: onMouseDown (listener on the hall container), onMouseMove and   *)
(* onMouseUp (listeners on the document), attached by addControls.          *)

LookSpeedMicro == 2000   \* this.lookSpeed = 0.002 rad per pixel
ClickThreshold == 5      \* dragDistance < 5

ClientXStep == 4         \* pointer x positions 0 and ClientXStep
ClientYStep == 3         \* pointer y positions 0 and ClientYStep
MaxLookPx == 4           \* look drags stay within MaxLookPx pixels of turn

Pointers == { <<x, y>> : x \in {0, ClientXStep}, y \in {0, ClientYStep} }

Dist2(p, q) == (p[1] - q[1]) * (p[1] - q[1]) + (p[2] - q[2]) * (p[2] - q[2])

Clamp(lo, hi, v) == IF v < lo THEN lo ELSE IF v > hi THEN hi ELSE v

\* A mutation of ClampPitch: only the upper limit is applied.
ClampPitchUpperOnly(v) == IF v > Pi2 THEN Pi2 ELSE v

\* onMouseMove line 3694: Math.max(-Math.PI / 2, Math.min(Math.PI / 2, x)).
ClampPitch(v) == Clamp(-Pi2, Pi2, v)

\* onMouseUp lines 2456-2459, squared: the distance from the release to
\* (mouseDownX, mouseDownY).
DragDistance2(p) == Dist2(p, mouseDown)

\* addControls(): called at the end of show().
addControls ==
  /\ ~controlsOn
  /\ controlsOn' = TRUE
  /\ UNCHANGED <<isMouseDown, lastMouse, mouseDown, press, lastUp, rotX, rotY>>

\* removeControls(): called by hide()'s delayed step.
removeControls ==
  /\ controlsOn
  /\ controlsOn' = FALSE
  /\ UNCHANGED <<isMouseDown, lastMouse, mouseDown, press, lastUp, rotX, rotY>>

\* The pointer goes down at p.  The mousedown listener is on the hall
\* container: it runs when controls are attached and the press lands on the
\* container or one of its children, not when it lands on an element attached
\* to document.body above it (the loading screen of a later show()).
PointerDown ==
  \E p \in Pointers, inside \in BOOLEAN :
    /\ ~press.held
    /\ press' = [held |-> TRUE, at |-> p, onContainer |-> inside]
    /\ IF controlsOn /\ inside
       THEN \* onMouseDown
            /\ isMouseDown' = TRUE
            /\ lastMouse' = p
            /\ mouseDown' = p
       ELSE UNCHANGED <<isMouseDown, lastMouse, mouseDown>>
    /\ UNCHANGED <<controlsOn, lastUp, rotX, rotY>>

\* The pointer moves to p; the mousemove listener is on the document.
PointerMove ==
  \E p \in Pointers :
    /\ controlsOn
    /\ isMouseDown     \* onMouseMove returns at once otherwise
    /\ LET deltaX == p[1] - lastMouse[1]
           deltaY == p[2] - lastMouse[2]
           yaw    == rotY - deltaX * LookSpeedMicro
           pitch  == ClampPitch(rotX - deltaY * LookSpeedMicro)
       IN /\ Abs(yaw) <= MaxLookPx * LookSpeedMicro
          /\ Abs(pitch) <= MaxLookPx * LookSpeedMicro
          /\ rotY' = yaw /\ rotX' = pitch
    /\ lastMouse' = p
    /\ UNCHANGED <<controlsOn, isMouseDown, mouseDown, press, lastUp>>

\* The pointer goes up at p; the mouseup listener is on the document.
\* lastUp records whether checkOrbClick was called, and the squared distance
\* the pointer really travelled between going down and going up.
PointerUp ==
  \E p \in Pointers :
    /\ press.held
    /\ press' = [press EXCEPT !.held = FALSE]
    /\ IF controlsOn
       THEN \* onMouseUp
            /\ isMouseDown' = FALSE
            /\ lastUp' = [seen |-> TRUE,
                          picked |-> DragDistance2(p) < ClickThreshold * ClickThreshold,
                          moved2 |-> Dist2(p, press.at)]
       ELSE UNCHANGED <<isMouseDown, lastUp>>
    /\ UNCHANGED <<controlsOn, lastMouse, mouseDown, rotX, rotY>>

----------------------------------------------------------------------------
(* Look drags across the whole window: the pointer travels hundreds of      *)
(* pixels, enough for the pitch to reach a quarter turn.                    *)

LookStepPx == 400        \* pointer positions are LookStepPx pixels apart
MaxLookRows == 3         \* pointer y positions 0 .. MaxLookRows * LookStepPx
MaxLookCols == 1         \* pointer x positions 0 .. MaxLookCols * LookStepPx
MaxYawSteps == 2         \* the yaw stays within MaxYawSteps steps of straight ahead

LookPointers == { <<i * LookStepPx, j * LookStepPx>> : i \in 0..MaxLookCols,
                                                      j \in 0..MaxLookRows }

\* onMouseDown(event) with the pointer at p.
onMouseDown ==
  \E p \in LookPointers :
    /\ controlsOn /\ ~press.held
    /\ press' = [held |-> TRUE, at |-> p, onContainer |-> TRUE]
    /\ isMouseDown' = TRUE
    /\ lastMouse' = p
    /\ mouseDown' = p
    /\ UNCHANGED <<controlsOn, lastUp, rotX, rotY>>

\* onMouseMove(event) with the pointer at p.
onMouseMove ==
  \E p \in LookPointers :
    /\ controlsOn
    /\ isMouseDown     \* if (!this.isMouseDown) return
    /\ LET deltaX == p[1] - lastMouse[1]
           deltaY == p[2] - lastMouse[2]
           yaw    == rotY - deltaX * LookSpeedMicro
       IN /\ Abs(yaw) <= MaxYawSteps * LookStepPx * LookSpeedMicro
          /\ rotY' = yaw
          /\ rotX' = ClampPitch(rotX - deltaY * LookSpeedMicro)
    /\ lastMouse' = p
    /\ UNCHANGED <<controlsOn, isMouseDown, mouseDown, press, lastUp>>

\* onMouseUp(event) with the pointer at p.
onMouseUp ==
  \E p \in LookPointers :
    /\ controlsOn /\ press.held
    /\ press' = [press EXCEPT !.held = FALSE]
    /\ isMouseDown' = FALSE
    /\ lastUp' = [seen |-> TRUE,
                  picked |-> DragDistance2(p) < ClickThreshold * ClickThreshold,
                  moved2 |-> Dist2(p, press.at)]
    /\ UNCHANGED <<controlsOn, lastMouse, mouseDown, rotX, rotY>>

----------------------------------------------------------------------------
(* loadSlideshowImages: probe 1.jpg, 2.jpg, ... one at a time *)

MaxImages == 20          \* const maxImages = 20

MaxPrefix == 21          \* folders hold up to MaxPrefix contiguous images
GapExtras == 2           \* ... and up to GapExtras files after the first gap

Min(a, b) == IF a <= b THEN a ELSE b

\* The folders the probe is run against: 1..k present, k+1 missing, and any
\* of the next GapExtras indices present.
Folders ==
  UNION { { (1..k) \cup extra : extra \in SUBSET { k + 1 + j : j \in 1..GapExtras } } :
          k \in 0..MaxPrefix }

\* Largest k such that every index 1..k is present.
RECURSIVE ContigFrom(_, _)
ContigFrom(present, i) == IF i \in present THEN ContigFrom(present, i + 1) ELSE i - 1
ContigPrefix(present) == ContigFrom(present, 1)

\* A mutation of ProbeNext: a missing image does not end the loop.
ProbeNextNoBreak(i, loaded) ==
  IF i + 1 <= MaxImages THEN "request" ELSE "done"

\* The for-loop of lines 906-909 after loadImage(i) has answered.
ProbeNext(i, loaded) ==
  IF ~loaded THEN "done"
  ELSE IF i + 1 <= MaxImages THEN "request" ELSE "done"

\* loadSlideshowImages() is called: images = [], loadImage(1) is issued.
StartProbe ==
  /\ probePc = "idle"
  /\ probePc' = "waiting" /\ probeI' = 1
  /\ probeImages' = <<>> /\ probeRequested' = {1}
  /\ UNCHANGED fsPresent

\* The loop goes on after an answer: next request, or return images.
ProbeAdvance(loaded) ==
  IF ProbeNext(probeI, loaded) = "request"
  THEN /\ probeI' = probeI + 1
       /\ probeRequested' = probeRequested \cup {probeI + 1}
       /\ probePc' = "waiting"
  ELSE /\ probePc' = "done"
       /\ UNCHANGED <<probeI, probeRequested>>

\* img.onload of the pending request.
ImgOnLoad ==
  /\ probePc = "waiting" /\ probeI \in fsPresent
  /\ probeImages' = Append(probeImages, probeI)
  /\ ProbeAdvance(TRUE)
  /\ UNCHANGED fsPresent

\* img.onerror of the pending request.
ImgOnError ==
  /\ probePc = "waiting" /\ probeI \notin fsPresent
  /\ probeImages' = probeImages
  /\ ProbeAdvance(FALSE)
  /\ UNCHANGED fsPresent

----------------------------------------------------------------------------
(* Life cycle: show(), hide(), dispose(), animate(), the media card.        *)
(* Timers count down in ticks of 100 ms; a timer fires when it is at 0, and *)
(* time passes only when no timer is at 0.                                  *)

MaxCalls == 2            \* show() calls in progress at the same time
MaxShowCalls == 2        \* show() calls per run
MaxHideCalls == 1        \* hide() calls per run
MaxDisposeCalls == 2     \* dispose() calls per run
MaxClicks == 2           \* orb clicks per run
MaxHostCalls == 3        \* host and user calls per run, all kinds together

\* The run may take one more call from the host or the user.
Budget == envCalls.show + envCalls.hide + envCalls.dispose + envCalls.click < MaxHostCalls

Ticks(ms) == ms \div 100

NoCall == [pc |-> "idle", due |-> 0, ls |-> "none", progOn |-> FALSE, log |-> <<>>,
           born |-> 0]
NoEnvCalls == [show |-> 0, hide |-> 0, dispose |-> 0, click |-> 0]

\* A show() call occupies its slot from the call to its return or its throw.
InProgress(c) == calls[c].pc \in {"T1", "T2", "T3", "T4", "T5", "T6", "T7"}

\* Timers of equal delay fire in the order they were set: of two show()
\* calls waiting at the same place, the one called first goes on first.
Turn(c) ==
  /\ calls[c].due = 0
  /\ \A d \in 1..MaxCalls :
       (InProgress(d) /\ calls[d].pc = calls[c].pc /\ calls[d].due = 0)
         => calls[c].born <= calls[d].born

\* requestAnimationFrame returns an id no pending request has; the id is also
\* different from the one animationFrameId still holds.
NewRafId(id, pend) ==
  CHOOSE n \in 1..(Cardinality(pend) + 2) :
    /\ n \notin pend /\ n # id
    /\ \A k \in 1..(n - 1) : k \in pend \/ k = id

\* cancelAnimationFrame(id)
Cancel(id, pend) == pend \ {id}

\* animate(), lines 3910-3912: the guard and the request for the next frame.
animate(active, id, pend) ==
  IF ~active THEN [id |-> id, pend |-> pend]
  ELSE [id |-> NewRafId(id, pend), pend |-> pend \cup {NewRafId(id, pend)}]

\* The rest of animate (updateCamera, ..., renderer.render) dereferences
\* this.camera and this.renderer, which dispose() sets to null.
animateThrows(active) == active /\ ~hasDom

\* show(accentColor, portfolioData), up to its first await.
show ==
  \E c \in 1..MaxCalls, data \in BOOLEAN :
    /\ ~InProgress(c)
    /\ \A d \in 1..(c - 1) : InProgress(d)
    /\ envCalls.show < MaxShowCalls /\ Budget
    /\ envCalls' = [envCalls EXCEPT !.show = @ + 1]
    /\ hasDom' = TRUE                    \* if (!this.container) this.init()
    /\ hall' = "none"                    \* cleanupSceneContent()
    /\ camX' = 0 /\ camZ' = 30000 /\ velX' = 0 /\ velZ' = 0
    /\ rotX' = 0 /\ rotY' = 0 /\ keys' = NoKeys
    /\ portfolioData' = data
    /\ shown' = FALSE                    \* container.style.display = 'none'
    /\ calls' = [calls EXCEPT ![c] =
                   [pc |-> "T1", due |-> Ticks(800), ls |-> "shown",
                    progOn |-> TRUE, log |-> <<"lsShow">>,
                    born |-> envCalls.show + 1]]
    /\ UNCHANGED <<frame, navFrames, navInputs, controlsOn, isActive,
                   animationFrameId, rafPending, hideDue, cardLoads, cardOpen,
                   closeDue, thrown>>

\* A show() call throws: the promise rejects, the rest of show() never runs.
ShowFails(c) ==
  /\ calls' = [calls EXCEPT ![c].pc = "failed"]
  /\ thrown' = thrown \cup {"show"}

\* After the 800 ms wait: createTShapedFloor, which adds to this.scene.
showBuild(c) ==
  /\ calls[c].pc = "T1" /\ Turn(c)
  /\ IF ~hasDom
     THEN ShowFails(c) /\ UNCHANGED hall
     ELSE /\ hall' = "built"
          /\ calls' = [calls EXCEPT ![c].pc = "T2", ![c].due = Ticks(600),
                                    ![c].log = Append(@, "built")]
          /\ UNCHANGED thrown
  /\ UNCHANGED <<navVars, controlsOn, hasDom, isActive, shown, portfolioData,
                 animationFrameId, rafPending, hideDue, cardLoads, cardOpen,
                 closeDue, envCalls>>

\* After the 600 ms wait: progress interval cleared, isActive set, container
\* displayed, first animate().
showReveal(c) ==
  /\ calls[c].pc = "T2" /\ Turn(c)
  /\ isActive' = TRUE
  /\ IF ~hasDom
     THEN /\ calls' = [calls EXCEPT ![c].pc = "failed", ![c].progOn = FALSE]
          /\ thrown' = thrown \cup {"show"}
          /\ UNCHANGED <<shown, animationFrameId, rafPending>>
     ELSE /\ shown' = TRUE
          /\ LET a == animate(TRUE, animationFrameId, rafPending)
             IN animationFrameId' = a.id /\ rafPending' = a.pend
          /\ calls' = [calls EXCEPT ![c].pc = "T3", ![c].due = Ticks(300),
                                    ![c].progOn = FALSE,
                                    ![c].log = Append(@, "visible")]
          /\ UNCHANGED thrown
  /\ UNCHANGED <<navVars, controlsOn, hasDom, hall, portfolioData, hideDue,
                 cardLoads, cardOpen, closeDue, envCalls>>

\* After the 300 ms wait: the 800 ms hold at 100 %.
showHold(c) ==
  /\ calls[c].pc = "T3" /\ Turn(c)
  /\ calls' = [calls EXCEPT ![c].pc = "T4", ![c].due = Ticks(800)]
  /\ UNCHANGED <<navVars, controlsOn, hasDom, isActive, shown, hall,
                 portfolioData, animationFrameId, rafPending, hideDue,
                 cardLoads, cardOpen, closeDue, thrown, envCalls>>

\* After the hold: loadingScreen.fadeToBlack() starts its 500 ms timer.
showFadeToBlack(c) ==
  /\ calls[c].pc = "T4" /\ Turn(c)
  /\ calls' = [calls EXCEPT ![c].pc = "T5", ![c].due = Ticks(500),
                            ![c].ls = "fading"]
  /\ UNCHANGED <<navVars, controlsOn, hasDom, isActive, shown, hall,
                 portfolioData, animationFrameId, rafPending, hideDue,
                 cardLoads, cardOpen, closeDue, thrown, envCalls>>

\* fadeToBlack() resolves; show() holds 500 ms on black.
showBlack(c) ==
  /\ calls[c].pc = "T5" /\ Turn(c)
  /\ calls' = [calls EXCEPT ![c].pc = "T6", ![c].due = Ticks(500),
                            ![c].ls = "black",
                            ![c].log = Append(@, "fadeResolved")]
  /\ UNCHANGED <<navVars, controlsOn, hasDom, isActive, shown, hall,
                 portfolioData, animationFrameId, rafPending, hideDue,
                 cardLoads, cardOpen, closeDue, thrown, envCalls>>

\* The overlay's opacity is set to 0; show() waits 1500 ms.
showFadeOut(c) ==
  /\ calls[c].pc = "T6" /\ Turn(c)
  /\ calls' = [calls EXCEPT ![c].pc = "T7", ![c].due = Ticks(1500),
                            ![c].ls = "clear",
                            ![c].log = Append(@, "opacity0")]
  /\ UNCHANGED <<navVars, controlsOn, hasDom, isActive, shown, hall,
                 portfolioData, animationFrameId, rafPending, hideDue,
                 cardLoads, cardOpen, closeDue, thrown, envCalls>>

\* After the 1500 ms wait: z-index restored, loadingScreen.hide(), back
\* button, addControls(), second animate().
showFinish(c) ==
  /\ calls[c].pc = "T7" /\ Turn(c)
  /\ IF ~hasDom
     THEN /\ ShowFails(c)
          /\ UNCHANGED <<controlsOn, animationFrameId, rafPending>>
     ELSE /\ controlsOn' = TRUE
          /\ LET a == animate(isActive, animationFrameId, rafPending)
             IN animationFrameId' = a.id /\ rafPending' = a.pend
          /\ calls' = [calls EXCEPT ![c].pc = "done", ![c].ls = "hidden",
                                    ![c].log = Append(@, "lsHide")]
          /\ UNCHANGED thrown
  /\ UNCHANGED <<navVars, hasDom, isActive, shown, hall, portfolioData,
                 hideDue, cardLoads, cardOpen, closeDue, envCalls>>

\* hide(): the overlay, and the 900 ms timer of the delayed step.
hide ==
  /\ envCalls.hide < MaxHideCalls /\ Budget
  /\ envCalls' = [envCalls EXCEPT !.hide = @ + 1]
  /\ hideDue' = Append(hideDue, Ticks(900))
  /\ UNCHANGED <<navVars, controlsOn, hasDom, isActive, shown, hall,
                 portfolioData, animationFrameId, rafPending, calls,
                 cardLoads, cardOpen, closeDue, thrown>>

\* hide()'s delayed step, lines 3884-3902.  removeControls() dereferences
\* this.container without a check.
hideStep ==
  /\ hideDue # <<>> /\ Head(hideDue) = 0
  /\ hideDue' = Tail(hideDue)
  /\ isActive' = FALSE
  /\ rafPending' = IF animationFrameId # 0
                   THEN Cancel(animationFrameId, rafPending) ELSE rafPending
  /\ IF ~hasDom
     THEN /\ thrown' = thrown \cup {"hideStep"}
          /\ UNCHANGED <<controlsOn, shown>>
     ELSE /\ controlsOn' = FALSE
          /\ shown' = FALSE
          /\ UNCHANGED thrown
  /\ UNCHANGED <<navVars, hasDom, hall, portfolioData, animationFrameId, calls,
                 cardLoads, cardOpen, closeDue, envCalls>>

\* dispose().  this.scene.traverse (line 4320) dereferences this.scene
\* without a check; what follows it runs only when the scene exists.
dispose ==
  /\ envCalls.dispose < MaxDisposeCalls /\ Budget
  /\ envCalls' = [envCalls EXCEPT !.dispose = @ + 1]
  /\ hideDue' = Append(hideDue, Ticks(900))          \* this.hide()
  /\ animationFrameId' = 0
  /\ rafPending' = IF animationFrameId # 0
                   THEN Cancel(animationFrameId, rafPending) ELSE rafPending
  /\ hall' = "none"
  /\ IF ~hasDom
     THEN /\ thrown' = thrown \cup {"dispose"}
          /\ UNCHANGED <<controlsOn, hasDom, shown, isActive, cardOpen>>
     ELSE /\ controlsOn' = FALSE
          /\ hasDom' = FALSE /\ shown' = FALSE /\ isActive' = FALSE
          /\ cardOpen' = 0                           \* cards go with the container
          /\ UNCHANGED thrown
  /\ UNCHANGED <<navVars, portfolioData, calls, cardLoads, closeDue>>

\* One animation frame: the browser runs the callback of a pending request.
Frame ==
  \E id \in rafPending :
    /\ LET a == animate(isActive, animationFrameId, rafPending \ {id})
       IN animationFrameId' = a.id /\ rafPending' = a.pend
    /\ thrown' = IF animateThrows(isActive) THEN thrown \cup {"animate"} ELSE thrown
    /\ UNCHANGED <<navVars, controlsOn, hasDom, isActive, shown, hall,
                   portfolioData, calls, hideDue, cardLoads, cardOpen, closeDue,
                   envCalls>>

\* A mouse-up that onMouseUp takes for a click lands on an orb:
\* checkOrbClick, showOrbContent, tryLoadMedia start loading the card's media.
clickOrb ==
  /\ controlsOn /\ portfolioData /\ hall = "built"
  /\ envCalls.click < MaxClicks /\ Budget
  /\ envCalls' = [envCalls EXCEPT !.click = @ + 1]
  /\ cardLoads' = cardLoads + 1
  /\ UNCHANGED <<navVars, controlsOn, hasDom, isActive, shown, hall,
                 portfolioData, animationFrameId, rafPending, calls, hideDue,
                 cardOpen, closeDue, thrown>>

\* tryLoadMedia gets its answer and calls showImageCard, which stops the
\* frame loop (lines 2612-2615) and puts the card in the container.
showImageCard ==
  /\ cardLoads > 0
  /\ cardLoads' = cardLoads - 1
  /\ IF ~hasDom
     THEN /\ thrown' = thrown \cup {"showImageCard"}
          /\ UNCHANGED <<animationFrameId, rafPending, cardOpen>>
     ELSE /\ animationFrameId' = 0
          /\ rafPending' = IF animationFrameId # 0
                           THEN Cancel(animationFrameId, rafPending) ELSE rafPending
          /\ cardOpen' = 1
          /\ UNCHANGED thrown
  /\ UNCHANGED <<navVars, controlsOn, hasDom, isActive, shown, hall,
                 portfolioData, calls, hideDue, closeDue, envCalls>>

\* The card's close button is clicked: the 300 ms removal timer starts.
closeCard ==
  /\ cardOpen > 0 /\ closeDue = <<>>
  /\ closeDue' = Append(closeDue, Ticks(300))
  /\ UNCHANGED <<navVars, controlsOn, hasDom, isActive, shown, hall,
                 portfolioData, animationFrameId, rafPending, calls, hideDue,
                 cardLoads, cardOpen, thrown, envCalls>>

\* The removal timer: the card goes, the frame loop resumes if
\* animationFrameId is null (lines 3170-3173).
closeStep ==
  /\ closeDue # <<>> /\ Head(closeDue) = 0
  /\ closeDue' = Tail(closeDue)
  /\ cardOpen' = 0
  /\ LET a == IF animationFrameId = 0
              THEN animate(isActive, animationFrameId, rafPending)
              ELSE [id |-> animationFrameId, pend |-> rafPending]
     IN animationFrameId' = a.id /\ rafPending' = a.pend
  /\ thrown' = IF animationFrameId = 0 /\ animateThrows(isActive)
               THEN thrown \cup {"animate"} ELSE thrown
  /\ UNCHANGED <<navVars, controlsOn, hasDom, isActive, shown, hall,
                 portfolioData, calls, hideDue, cardLoads, envCalls>>

\* The timers that are running.
Dues == { calls[c].due : c \in { d \in 1..MaxCalls : InProgress(d) } }
          \cup { hideDue[i] : i \in 1..Len(hideDue) }
          \cup { closeDue[i] : i \in 1..Len(closeDue) }

\* 100 ms pass: every running timer comes 100 ms closer.
Tick ==
  /\ Dues # {} /\ 0 \notin Dues
  /\ calls' = [c \in 1..MaxCalls |->
                 IF InProgress(c) THEN [calls[c] EXCEPT !.due = @ - 1] ELSE calls[c]]
  /\ hideDue' = [i \in 1..Len(hideDue) |-> hideDue[i] - 1]
  /\ closeDue' = [i \in 1..Len(closeDue) |-> closeDue[i] - 1]
  /\ UNCHANGED <<navVars, controlsOn, hasDom, isActive, shown, hall,
                 portfolioData, animationFrameId, rafPending, cardLoads,
                 cardOpen, thrown, envCalls>>

----------------------------------------------------------------------------
(* Media of one orb: createOrb's video element, image probe, slideshow and   *)
(* crossfade intervals, and the three places that tear orbs down.           *)
(* Timers fire in any order: nothing in the code ties the 3000 ms slideshow *)
(* interval to the 33 ms crossfade interval, and browsers delay both.       *)

FadeSteps == 30          \* const fadeSteps = 30

MaxOrbFiles == 2         \* an orb folder holds 0..MaxOrbFiles numbered images
MaxFades == 2            \* crossfade intervals running at the same time

NoOrb == [st |-> "none", tornBy |-> "none",
          folder |-> FALSE, videoOk |-> FALSE, files |-> 0,
          vid |-> "none", hasVideo |-> FALSE, probes |-> 0,
          slidesBound |-> 0, slidesUnbound |-> 0,
          playable |-> FALSE, errorHandled |-> FALSE, probeStarted |-> FALSE,
          probeZero |-> FALSE, fallbackDrawn |-> FALSE,
          slideshowStarted |-> FALSE, lateWrite |-> FALSE]

\* A mutation of MediaStart: with a folder the images are probed at once.
MediaStartSkipsVideo(folder) ==
  IF folder THEN "probe" ELSE "fallback"

\* A mutation of MediaStart: the video is tried whether or not there is a
\* folder.
MediaStartAlwaysVideo(folder) == "video"

\* createOrb lines 914-961: videoPath is set exactly when folder is, so the
\* middle branch is never taken.
MediaStart(folder) ==
  LET videoPath == folder
  IN IF videoPath THEN "video" ELSE IF folder THEN "probe" ELSE "fallback"

\* What loadSlideshowImages resolves for a folder holding 1.jpg..files.jpg.
Resolved(files) == Min(files, MaxImages)

\* A canvas write of a torn-down orb.
Late(o) == o.lateWrite \/ o.st = "torn"

\* The orb createOrb leaves behind when it returns: its media requests are
\* started, none is awaited.
NewOrb(folder, videoOk, files) ==
  LET start == MediaStart(folder)
  IN [NoOrb EXCEPT !.st = "live", !.folder = folder,
                   !.videoOk = videoOk, !.files = files,
                   !.vid = IF start = "video" THEN "loading" ELSE "none",
                   !.probes = IF start = "probe" THEN 1 ELSE 0,
                   !.probeStarted = (start = "probe"),
                   !.fallbackDrawn = (start = "fallback")]

\* createOrb for one orb of a hall that is being built.
createOrb ==
  \E folder \in BOOLEAN, videoOk \in BOOLEAN, files \in 0..MaxOrbFiles :
    /\ orb.st = "none"
    /\ folder \/ (~videoOk /\ files = 0)
    /\ orb' = NewOrb(folder, videoOk, files)
    /\ UNCHANGED fades

\* The video element's 'loadeddata' listener.
onLoadedData ==
  /\ orb.vid = "loading" /\ orb.videoOk
  /\ orb' = [orb EXCEPT !.vid = "ready", !.hasVideo = TRUE, !.playable = TRUE]
  /\ UNCHANGED fades

\* The video element's 'error' listener, up to its await.  The element
\* fires 'error' when 1.mp4 cannot be loaded, when a playing video breaks,
\* and when teardown reloads it with src = '' (load() of an empty src fails).
onVideoError ==
  /\ \/ orb.vid = "loading" /\ ~orb.videoOk
     \/ orb.vid = "ready"
     \/ orb.vid = "emptied"
  /\ orb' = [orb EXCEPT !.vid = IF orb.vid = "emptied" THEN "dead" ELSE "failed",
                        !.hasVideo = FALSE,
                        !.probes = @ + 1,
                        !.errorHandled = TRUE, !.probeStarted = TRUE]
  /\ UNCHANGED fades

\* A mutation of Cycles: a single image gets the interval too.
CyclesSingleImage(k) == k > 0

\* startSlideshow line 715: the slideshow interval is created for a list of
\* k images.
Cycles(k) == k > 1

\* loadSlideshowImages() resolves: startSlideshow(images) or the fallback.
\* startSlideshow looks the orb up in this.orbs; the intervals it creates
\* are recorded there only if the orb is found.
probeResolves ==
  /\ orb.probes > 0
  /\ LET k == Resolved(orb.files)
         found == orb.st = "live"
     IN orb' = IF k = 0
               THEN [orb EXCEPT !.probes = @ - 1, !.probeZero = TRUE,
                                !.fallbackDrawn = TRUE, !.lateWrite = Late(orb)]
               ELSE [orb EXCEPT !.probes = @ - 1, !.slideshowStarted = TRUE,
                                !.lateWrite = Late(orb),
                                !.slidesBound = IF Cycles(k) /\ found THEN @ + 1 ELSE @,
                                !.slidesUnbound = IF Cycles(k) /\ ~found THEN @ + 1 ELSE @]
  /\ UNCHANGED fades

\* A crossfade interval the orb's record does not point to.
Unsaved(f) == ~f.saved

\* The 3000 ms tick of a slideshow interval whose startSlideshow found the
\* orb: the recorded crossfade is cleared, the new one is recorded.
slideTickBound ==
  /\ orb.slidesBound > 0
  /\ Len(SelectSeq(fades, Unsaved)) < MaxFades
  /\ fades' = Append(SelectSeq(fades, Unsaved), [t |-> 0, saved |-> TRUE])
  /\ UNCHANGED orb

\* The 3000 ms tick of a slideshow interval whose startSlideshow did not
\* find the orb: nothing is cleared, nothing is recorded.
slideTickUnbound ==
  /\ orb.slidesUnbound > 0
  /\ Len(fades) < MaxFades
  /\ fades' = Append(fades, [t |-> 0, saved |-> FALSE])
  /\ UNCHANGED orb

\* The 33 ms tick of a crossfade interval.  progress += 1 / fadeSteps reaches
\* 1 at the tick after fadeSteps (thirty additions of 1/30 give
\* 0.9999999999999999): that tick clears the interval and draws the image.
fadeTick ==
  \E i \in 1..Len(fades) :
    /\ fades' = IF fades[i].t + 1 > FadeSteps
                THEN [j \in 1..(Len(fades) - 1) |-> IF j < i THEN fades[j] ELSE fades[j + 1]]
                ELSE [fades EXCEPT ![i].t = @ + 1]
    /\ orb' = [orb EXCEPT !.lateWrite = Late(orb)]

\* The element after teardown's pause(); src = ''; load().
Emptied(v) == IF v = "none" THEN "none" ELSE "emptied"

\* cleanupSceneContent, the orb loop (lines 2343-2415).
cleanupOrbs ==
  /\ orb.st = "live"
  /\ orb' = [orb EXCEPT !.st = "torn", !.tornBy = "cleanup",
                        !.vid = Emptied(@), !.slidesBound = 0]
  /\ fades' = SelectSeq(fades, Unsaved)

\* createMemoryOrbs, "Clear existing orbs" (lines 495-537), when a hall is
\* built over a hall that was not cleaned up: the crossfade is not cleared.
clearOrbs ==
  /\ orb.st = "live"
  /\ orb' = [orb EXCEPT !.st = "torn", !.tornBy = "rebuild",
                        !.vid = Emptied(@), !.slidesBound = 0]
  /\ UNCHANGED fades

\* dispose(), the orb loop (lines 4162-4206): no interval is cleared.
disposeOrbs ==
  /\ orb.st = "live"
  /\ orb' = [orb EXCEPT !.st = "torn", !.tornBy = "dispose", !.vid = Emptied(@)]
  /\ UNCHANGED fades

----------------------------------------------------------------------------
(* The scene graph: how many objects of each kind this.scene holds, and     *)
(* whether the view still holds the reference through which a teardown      *)
(* finds them.  A hall build adds one set of each hall kind.                *)

ReflectionLights == 5    \* init(): the reflectionLights array has five entries
BaseLights == 3          \* init(): ambient, directional and hemisphere light

\* What a hall build adds to the scene.  "lights" are the point lights the
\* build adds straight to the scene and keeps no list of (corner lights, arc
\* lights) together with the title's three lights.
HallKinds == {"floorPieces", "edges", "orbs", "arcParticles", "title", "lights"}

\* The kinds createTShapedFloor and createMemoryOrbs clear through the
\* view's field before they build (floorPieces lines 151-161, edges 163-168,
\* this.orbs lines 495-538).
BuildClears == {"floorPieces", "edges", "orbs"}

\* The kinds cleanupSceneContent clears through the view's field (title
\* lines 2269-2312, arc particles 2315-2326, orbs 2343-2415, edges
\* 2418-2425); its floor branch tests this.floor, which is never assigned.
CleanupClears == {"title", "arcParticles", "orbs", "edges"}

\* Before init(): there is no scene.
NoScene == [made |-> FALSE, base |-> 0, reflection |-> 0, stars |-> 0, moon |-> 0,
            n |-> [k \in HallKinds |-> 0], held |-> [k \in HallKinds |-> 0]]

\* init() lines 64-124: a new scene with the starfield, the moon and the
\* lights.
sceneInit(s) ==
  [NoScene EXCEPT !.made = TRUE, !.base = BaseLights,
                  !.reflection = ReflectionLights, !.stars = 1, !.moon = 1]

\* cleanupSceneContent lines 2435-2442: the traversal removes every light
\* that is not an AmbientLight, a DirectionalLight or a HemisphereLight.
\* The reflection lights of init() and the lights of a hall are PointLights.
LightGoes(kind) == kind \in {"hall", "reflection"}

\* cleanupSceneContent(): the sets the view holds leave the scene, and so
\* does every light the traversal picks.  n counts sets in the scene, held
\* the set (0 or 1) the view's field points to.
sceneCleanup(s) ==
  [s EXCEPT !.n = [k \in HallKinds |->
                     IF k = "lights" THEN (IF LightGoes("hall") THEN 0 ELSE s.n[k])
                     ELSE IF k \in CleanupClears THEN s.n[k] - s.held[k]
                     ELSE s.n[k]],
            !.held = [k \in HallKinds |->
                        IF k \in CleanupClears THEN 0 ELSE s.held[k]],
            !.reflection = IF LightGoes("reflection") THEN 0 ELSE s.reflection,
            !.base = IF LightGoes("base") THEN 0 ELSE s.base]

\* createTShapedFloor(): a kind the build does not clear stays in the scene
\* when the field is overwritten by the new set.
BuildKeeps(k) == k \notin BuildClears

\* createTShapedFloor(accentColor), whole: floor pieces, edges, orbs, corner
\* lights, entrance arc with its particles, floating title with its lights.
sceneBuild(s) ==
  [s EXCEPT !.n = [k \in HallKinds |->
                     IF BuildKeeps(k) THEN s.n[k] + 1 ELSE s.n[k] - s.held[k] + 1],
            !.held = [k \in HallKinds |-> IF k = "lights" THEN 0 ELSE 1]]

----------------------------------------------------------------------------
(* Media cards.  showImageCard attaches to the hall container a backdrop, a *)
(* caption, the card (class memory-card) with its media, a navigation bar   *)
(* and a Close button; the Close button is moved out of the card (line      *)
(* 3182), so the card element holds the media only.  The mousedown listener *)
(* is on the container and the mouseup listener on the document: a press    *)
(* and release on any of these elements reaches onMouseDown and onMouseUp   *)
(* as one on the canvas does.                                               *)

\* One showImageCard call's elements: the .memory-card element, and the
\* rest (backdrop, caption, navigation, Close button).
NewCard == [card |-> TRUE, rest |-> TRUE]
NoCards == [inst |-> <<>>, closing |-> 0]

\* container.querySelector('.memory-card'): the first card element attached,
\* 0 if there is none.
ExistingCard(inst) ==
  IF \E i \in 1..Len(inst) : inst[i].card
  THEN CHOOSE i \in 1..Len(inst) :
         inst[i].card /\ \A j \in 1..(i - 1) : ~inst[j].card
  ELSE 0

\* showImageCard lines 2604-2606 and 3179-3182: the existing card element is
\* removed, the new card's elements are attached.
Attach(inst) ==
  LET old == ExistingCard(inst)
      gone == IF old = 0 THEN inst ELSE [inst EXCEPT ![old].card = FALSE]
  IN Append(gone, NewCard)

----------------------------------------------------------------------------
(* OrbModal: open / close / showNext / showPrev and the content clear that  *)
(* close() schedules 300 ms later.  An image list is a sequence of image    *)
(* numbers; NaN stands for the number JavaScript's % gives for a divisor    *)
(* of 0.                                                                    *)

MaxModalCalls == 5       \* calls of the modal's methods per run
NaN == 1000000           \* not a number: a value no list index reaches

\* The lists open() is called with: none, empty, one image, several.
ImageLists == {<<>>, <<1>>, <<2, 3>>, <<4, 5, 6>>}

\* constructor lines 6-12.
NoModal == [isOpen |-> FALSE, currentImages |-> <<>>, currentIndex |-> 0,
            clears |-> 0, opened |-> <<>>, calls |-> 0]

\* a % n in JavaScript, for a >= 0 or NaN and n >= 0.
JsMod(a, n) == IF a = NaN \/ n = 0 THEN NaN ELSE a % n

\* a + b in JavaScript.
JsAdd(a, b) == IF a = NaN \/ b = NaN THEN NaN ELSE a + b

\* displayMedia(index), lines 108-110: both comparisons are false for NaN.
displayMedia(m, index) ==
  IF index # NaN /\ (index < 0 \/ index >= Len(m.currentImages))
  THEN m
  ELSE [m EXCEPT !.currentIndex = index]

\* open(title, images); "opened" keeps the list of the last call that
\* passed the guard.
open ==
  \E images \in ImageLists :
    /\ modal.calls < MaxModalCalls
    /\ modal' = IF Len(images) = 0
                THEN [modal EXCEPT !.calls = @ + 1]
                ELSE displayMedia([modal EXCEPT !.calls = @ + 1,
                                                !.currentImages = images,
                                                !.currentIndex = 0,
                                                !.isOpen = TRUE,
                                                !.opened = images], 0)

\* close(): returns at once when the modal is not open; otherwise the
\* content clear is scheduled.
close ==
  /\ modal.calls < MaxModalCalls
  /\ modal' = IF ~modal.isOpen
              THEN [modal EXCEPT !.calls = @ + 1]
              ELSE [modal EXCEPT !.calls = @ + 1, !.isOpen = FALSE,
                                 !.clears = @ + 1]

\* The timer of close(), lines 238-242.
clearContent ==
  /\ modal.clears > 0
  /\ modal' = [modal EXCEPT !.clears = @ - 1, !.currentImages = <<>>,
                            !.currentIndex = 0]

\* showNext()
showNext ==
  /\ modal.calls < MaxModalCalls
  /\ modal' = displayMedia([modal EXCEPT !.calls = @ + 1],
                 JsMod(JsAdd(modal.currentIndex, 1), Len(modal.currentImages)))

\* showPrev()
showPrev ==
  /\ modal.calls < MaxModalCalls
  /\ modal' = displayMedia([modal EXCEPT !.calls = @ + 1],
                 JsMod(JsAdd(JsAdd(modal.currentIndex, -1), Len(modal.currentImages)),
                       Len(modal.currentImages)))

----------------------------------------------------------------------------
(* Loading progress of one show() call: the 150 ms interval that adds a     *)
(* random step to the closure's counter and reports it, and the explicit    *)
(* reports of 30, 70 and 100.  Times are in milliseconds from the call;     *)
(* timers fire at their nominal times.                                      *)

ProgressIntervalMs == 150    \* setInterval(..., 150)
ProgressCap == 85            \* if (progress > 85) progress = 85
AssetsDelayMs == 800         \* first wait of show()
BuildDelayMs == 600          \* second wait of show()

\* Math.random() * 10, in whole percent: some values of [0, 10).
RandomSteps == {0, 3, 6, 9}

\* Before show(): no loading screen.  "last" is what setProgress was last
\* given (LoadingScreen starts at 0); "fell" records that some value was
\* below the one before it, "late" that a value came after 100.
NoProgress == [phase |-> "idle", counter |-> 0, ticks |-> 0, last |-> 0,
               fell |-> FALSE, late |-> FALSE]

\* When the interval fires next.
NextTickMs == (progress.ticks + 1) * ProgressIntervalMs

\* LoadingScreen.setProgress(value), lines 244-250: the value is clamped to
\* 0..100 and shown.
setProgress(pr, value) ==
  [pr EXCEPT !.last = Clamp(0, 100, value),
             !.fell = @ \/ Clamp(0, 100, value) < pr.last,
             !.late = @ \/ pr.last = 100]

\* show() lines 2064-2078: the loading screen is shown, the interval set.
showLoading ==
  /\ progress.phase = "idle"
  /\ progress' = [progress EXCEPT !.phase = "loading"]

\* The interval's callback, lines 2073-2077.
progressTick ==
  \E step \in RandomSteps :
    /\ \/ progress.phase = "loading" /\ NextTickMs <= AssetsDelayMs
       \/ progress.phase = "built" /\ NextTickMs <= AssetsDelayMs + BuildDelayMs
    /\ LET sum == progress.counter + step
           capped == IF sum > ProgressCap THEN ProgressCap ELSE sum
       IN progress' = setProgress([progress EXCEPT !.counter = capped,
                                                    !.ticks = @ + 1], capped)

\* After the first wait, lines 2081-2085: setProgress(30), the hall is
\* built, setProgress(70).
progressBuild ==
  /\ progress.phase = "loading" /\ NextTickMs > AssetsDelayMs
  /\ progress' = setProgress(setProgress([progress EXCEPT !.phase = "built"], 30), 70)

\* After the second wait, lines 2087-2090: setProgress(100), and the
\* interval is cleared.
progressDone ==
  /\ progress.phase = "built" /\ NextTickMs > AssetsDelayMs + BuildDelayMs
  /\ progress' = setProgress([progress EXCEPT !.phase = "done"], 100)

----------------------------------------------------------------------------
(* GPU-side resources of one hall: what each teardown path calls dispose()  *)
(* on.  One orb and one edge segment stand for all of them (the loops run   *)
(* the same code for each); the floor is the three pieces, which share one  *)
(* material and one texture; an orb platform holds a base texture and the   *)
(* texture its particle sprites share (Material.clone() copies the map by   *)
(* reference).                                                              *)

ParticleCount == 50      \* createOrbPlatform, particleCount
MaxBuilds == 4           \* halls built per run
MaxGpuShows == 5         \* show() calls per run

GpuKinds == {"orbTexture", "orbMaterial", "platformTexture", "particleTexture",
             "floorMaterial", "floorTexture", "edgeMaterial"}

NoCounts == [k \in GpuKinds |-> 0]

NoGpu == [n |-> NoCounts, built |-> 0, shows |-> 0, toBuild |-> 0,
          orbsHeld |-> FALSE, edgesHeld |-> FALSE, floorHeld |-> FALSE,
          retired |-> <<>>]

\* dispose() calls added to the counts n.
Disposed(n, more) == [k \in GpuKinds |-> n[k] + more[k]]

\* cleanupSceneContent's orb loop, per orb: material.map.dispose(),
\* material.dispose(), the platform traverse, and orb.texture.dispose() on
\* the texture that is the material's map.
CleanupOrbCounts ==
  [NoCounts EXCEPT !["orbTexture"] = 2, !["orbMaterial"] = 1,
                   !["platformTexture"] = 1, !["particleTexture"] = ParticleCount]

\* The orb loops of createMemoryOrbs ("Clear existing orbs") and dispose():
\* material.dispose(), orb.texture.dispose(), the platform traverse.
ClearOrbCounts ==
  [NoCounts EXCEPT !["orbTexture"] = 1, !["orbMaterial"] = 1,
                   !["platformTexture"] = 1, !["particleTexture"] = ParticleCount]

\* The edge loops (cleanupSceneContent, createTShapedFloor, dispose()).
EdgeCounts == [NoCounts EXCEPT !["edgeMaterial"] = 1]

\* The floorPieces loops (createTShapedFloor, dispose()): once per piece, on
\* the material and the texture the pieces share.
FloorCounts ==
  [NoCounts EXCEPT !["floorMaterial"] = Cardinality(FloorPieces),
                   !["floorTexture"] = Cardinality(FloorPieces)]

\* What a routine adds, given which lists still hold the hall's objects.
Released(g, orbCounts, withFloor) ==
  Disposed(Disposed(Disposed(g.n,
      IF g.orbsHeld THEN orbCounts ELSE NoCounts),
      IF g.edgesHeld THEN EdgeCounts ELSE NoCounts),
      IF withFloor /\ g.floorHeld THEN FloorCounts ELSE NoCounts)

\* show(), first part: cleanupSceneContent().  this.floor is never
\* assigned, so the floor branch does nothing; floorPieces is not visited.
gpuCleanup ==
  /\ gpu.shows < MaxGpuShows
  /\ gpu' = [gpu EXCEPT !.n = Released(gpu, CleanupOrbCounts, FALSE),
                        !.orbsHeld = FALSE, !.edgesHeld = FALSE,
                        !.shows = @ + 1, !.toBuild = @ + 1]

\* show(), after 800 ms: createTShapedFloor() clears floorPieces and edges,
\* createMemoryOrbs() clears this.orbs, and the new hall is created.
gpuBuild ==
  /\ gpu.toBuild > 0 /\ gpu.built < MaxBuilds
  /\ gpu' = [gpu EXCEPT !.n = NoCounts,
                        !.retired = IF gpu.built > 0
                                    THEN Append(@, Released(gpu, ClearOrbCounts, TRUE))
                                    ELSE @,
                        !.built = @ + 1, !.toBuild = @ - 1,
                        !.orbsHeld = TRUE, !.edgesHeld = TRUE, !.floorHeld = TRUE]

\* dispose(), once a hall has been built.
gpuDispose ==
  /\ gpu.built > 0
  /\ gpu.orbsHeld \/ gpu.edgesHeld \/ gpu.floorHeld
  /\ gpu' = [gpu EXCEPT !.n = Released(gpu, ClearOrbCounts, TRUE),
                        !.orbsHeld = FALSE, !.edgesHeld = FALSE, !.floorHeld = FALSE]

----------------------------------------------------------------------------
(* The orb list: createMemoryOrbs fills this.orbs, showOrbContent resolves  *)
(* a clicked orb's index to a content key.  A key is a name and a number:   *)
(* 'overview' is <<"overview", 0>>, 'placeholder7' is <<"placeholder", 7>>. *)

MaxOrbBuilds == 3        \* createMemoryOrbs runs per run

\* `placeholder${n}`
Placeholder(n) == <<"placeholder", n>>

\* cardKeys of createMemoryOrbs (lines 555-561).
CreateCardKeys ==
  << <<"overview", 0>>, <<"gallery", 0>>, <<"technologies", 0>>,
     <<"details", 0>>, <<"links", 0>>, <<"contact", 0>>,
     Placeholder(1), Placeholder(2), Placeholder(3), Placeholder(4),
     Placeholder(5), Placeholder(6), Placeholder(7), Placeholder(8),
     Placeholder(9), Placeholder(10), Placeholder(11), Placeholder(12),
     Placeholder(13), Placeholder(14), Placeholder(15), Placeholder(16),
     Placeholder(17), Placeholder(18), Placeholder(19), Placeholder(20),
     Placeholder(21) >>

\* cardKeys of showOrbContent (lines 2523-2529), a second copy of the list.
ClickCardKeys ==
  << <<"overview", 0>>, <<"gallery", 0>>, <<"technologies", 0>>,
     <<"details", 0>>, <<"links", 0>>, <<"contact", 0>>,
     Placeholder(1), Placeholder(2), Placeholder(3), Placeholder(4),
     Placeholder(5), Placeholder(6), Placeholder(7), Placeholder(8),
     Placeholder(9), Placeholder(10), Placeholder(11), Placeholder(12),
     Placeholder(13), Placeholder(14), Placeholder(15), Placeholder(16),
     Placeholder(17), Placeholder(18), Placeholder(19), Placeholder(20),
     Placeholder(21) >>

\* cardKeys[index] || `placeholder${index + 1}`, index counted from 0.
KeyAt(cardKeys, index) ==
  IF index + 1 \in 1..Len(cardKeys) THEN cardKeys[index + 1]
                                     ELSE Placeholder(index + 1)

\* The createOrb(x, y, z, rotationY) calls of createMemoryOrbs in order, as
\* <<x, z>> in units (leftX = -12.5, rightX = 12.5, tBarLeftX = -39.5,
\* tBarRightX = 39.5, tBarBackWallZ = -86.5, tBarMiddleZ = -76; halves
\* written in tenths).
OrbLayout ==
  << <<-125, 20>>, <<-125, -100>>, <<-125, -220>>, <<-125, -340>>,
     <<-125, -460>>, <<-125, -560>>,
     <<125, 20>>, <<125, -100>>, <<125, -220>>, <<125, -340>>,
     <<125, -460>>, <<125, -560>>,
     <<-125, -650>>, <<-220, -650>>, <<-300, -650>>,
     <<-395, -760>>,
     <<-300, -865>>, <<-180, -865>>, <<-80, -865>>, <<0, -865>>,
     <<80, -865>>, <<180, -865>>, <<300, -865>>,
     <<125, -650>>, <<220, -650>>, <<300, -650>>,
     <<395, -760>> >>

NoPick == [seen |-> FALSE, index |-> 0, key |-> <<"", 0>>, created |-> <<"", 0>>]

\* A mutation of ClearedOrbs: the old orbs stay in the list.
ClearedOrbsKept(list) == list

\* createMemoryOrbs, "Clear existing orbs": this.orbs = [].
ClearedOrbs(list) == <<>>

\* The pushes of the createOrb calls onto list: the call number n (orbIndex
\* n - 1) gets cardKey KeyAt(cardKeys, n - 1).
RECURSIVE PushOrbs(_, _)
PushOrbs(list, n) ==
  IF n > Len(OrbLayout) THEN list
  ELSE PushOrbs(Append(list, [cardKey |-> KeyAt(CreateCardKeys, n - 1),
                              at |-> OrbLayout[n]]), n + 1)

\* createMemoryOrbs(), whole: it runs to its end without an await.
createMemoryOrbs ==
  /\ orbBuilds < MaxOrbBuilds
  /\ orbBuilds' = orbBuilds + 1
  /\ orbs' = PushOrbs(ClearedOrbs(orbs), 1)
  /\ UNCHANGED picked

\* cleanupSceneContent() and dispose(): this.orbs = [].
emptyOrbs ==
  /\ orbs # <<>>
  /\ orbs' = <<>>
  /\ UNCHANGED <<orbBuilds, picked>>

\* checkOrbClick (with a content descriptor set, else it returns at once)
\* hits the mesh of the orb at position i of this.orbs:
\* orbIndex = findIndex(...) = i - 1, and showOrbContent(orbIndex) resolves
\* the key.
showOrbContent ==
  \E i \in 1..Len(orbs) :
    /\ picked' = [seen |-> TRUE, index |-> i - 1,
                  key |-> KeyAt(ClickCardKeys, i - 1),
                  created |-> orbs[i].cardKey]
    /\ UNCHANGED <<orbs, orbBuilds>>

----------------------------------------------------------------------------
(* Edge glow: the pulse animate() gives the opacity of the meshes in         *)
(* this.edges.  createLightsaberEdge pushes, per segment, a core (normal    *)
(* blending, opacity 1) and then a glow mesh (additive blending, opacity    *)
(* 0.20).  Angles are in units of 4 milliradians: a frame adds              *)
(* 2 * 0.016 rad = 8 units to this.time * 2, the per-edge offset index * 0.5 *)
(* is 125 units per index, and a half turn is taken as 784 units (3.136     *)
(* rad), which makes the pulse repeat after 196 frames.  Opacities are in   *)
(* thousandths.                                                             *)

HalfTurn == 3136 \div 4
PulseFrames == (2 * HalfTurn) \div 8         \* frames per pulse period
ThrottleFrames == 25                         \* floor(0.96 n) repeats its parity
GlowCycle == PulseFrames * ThrottleFrames    \* frames after which all repeats

EdgeKinds == <<"core", "glow", "core", "glow">>
GlowEdges == {i \in 1..Len(EdgeKinds) : EdgeKinds[i] = "glow"}

GlowStartOpacity == 200  \* glowMaterial opacity 0.20
SkipAbove == 800         \* edge.material.opacity > 0.8

NoGlow == [n |-> 0, ran |-> FALSE,
           opacity |-> [i \in 1..Len(EdgeKinds) |->
                          IF EdgeKinds[i] = "glow" THEN GlowStartOpacity ELSE 1000],
           touched |-> [i \in 1..Len(EdgeKinds) |-> FALSE]]

\* Math.sin on [0, half turn], in thousandths (Bhaskara's rational
\* approximation, within 2 thousandths of the sine).
SinHalf(x) ==
  LET q == x * (HalfTurn - x)
  IN (1600 * q) \div ((5 * HalfTurn * HalfTurn - 4 * q) \div 10)

\* Math.sin of an angle of a units, in thousandths.
PulseSin(a) ==
  LET r == a % (2 * HalfTurn)
  IN IF r <= HalfTurn THEN SinHalf(r) ELSE -SinHalf(r - HalfTurn)

\* intensity = 0.7 + Math.sin(this.time * 2 + index * 0.5) * 0.3, for the
\* edge at index (from 0) after n frames.
Intensity(n, index) == 700 + TruncDiv(300 * PulseSin(8 * n + 125 * index), 1000)

\* animate lines 3925-3927: "Skip animation for door edges".
SkipsEdge(kind, opacity) == kind = "glow" /\ opacity > SkipAbove

\* Math.floor(this.time * 60) % 2 === 0 after n frames: this.time * 60 is
\* 0.96 n up to rounding, so where 0.96 n is a whole number the floor can
\* fall on either side.
ThrottleOpen(n) ==
  IF (96 * n) % 100 = 0 THEN BOOLEAN
  ELSE {((96 * n) \div 100) % 2 = 0}

\* One frame of animate() while the hall is active, as far as the edges go.
glowFrame ==
  \E gate \in ThrottleOpen(glow.n + 1) :
    LET n == glow.n + 1
        upd == [i \in 1..Len(EdgeKinds) |->
                  gate /\ ~SkipsEdge(EdgeKinds[i], glow.opacity[i])]
    IN glow' = [n |-> n % GlowCycle, ran |-> TRUE,
                opacity |-> [i \in 1..Len(EdgeKinds) |->
                               IF upd[i] THEN Intensity(n, i - 1) ELSE glow.opacity[i]],
                touched |-> upd]

----------------------------------------------------------------------------
(* Constructor values of each part *)

InitNavIdle ==
  /\ camX = 0 /\ camZ = 30000 /\ velX = 0 /\ velZ = 0
  /\ keys = NoKeys /\ rotX = 0 /\ rotY = 0
  /\ frame = NoFrame /\ navFrames = 0 /\ navInputs = 0

InitBndIdle == probe = NoProbe

InitMouseIdle ==
  /\ isMouseDown = FALSE
  /\ lastMouse = <<0, 0>> /\ mouseDown = <<0, 0>>
  /\ press = [held |-> FALSE, at |-> <<0, 0>>, onContainer |-> FALSE]
  /\ lastUp = [seen |-> FALSE, picked |-> FALSE, moved2 |-> 0]

InitProbeIdle ==
  /\ fsPresent = {} /\ probePc = "idle" /\ probeI = 0
  /\ probeImages = <<>> /\ probeRequested = {}

InitMediaIdle == orb = NoOrb /\ fades = <<>>

InitLifeIdle ==
  /\ controlsOn = FALSE /\ hasDom = FALSE /\ isActive = FALSE /\ shown = FALSE
  /\ hall = "none" /\ portfolioData = FALSE
  /\ animationFrameId = 0 /\ rafPending = {}
  /\ calls = [c \in 1..MaxCalls |-> NoCall]
  /\ hideDue = <<>> /\ cardLoads = 0 /\ cardOpen = 0 /\ closeDue = <<>>
  /\ thrown = {} /\ envCalls = NoEnvCalls

InitDriftIdle == drift = NoDrift

InitGpuIdle == gpu = NoGpu

InitOrbsIdle == orbs = <<>> /\ orbBuilds = 0 /\ picked = NoPick

InitGlowIdle == glow = NoGlow

InitSceneIdle == scene = NoScene

InitHideIdle == hideInEffect = FALSE

InitCardIdle == cardDom = NoCards

InitModalIdle == modal = NoModal

InitProgressIdle == progress = NoProgress

InitLateIdle ==
  InitSceneIdle /\ InitHideIdle /\ InitCardIdle /\ InitModalIdle /\ InitProgressIdle

InitExtIdle == InitDriftIdle /\ InitGpuIdle /\ InitOrbsIdle /\ InitGlowIdle /\ InitLateIdle

----------------------------------------------------------------------------
InitBoundary == InitNavIdle /\ InitBndIdle /\ InitMouseIdle /\ InitProbeIdle /\ InitLifeIdle /\ InitMediaIdle /\ InitExtIdle
NextBoundary == TestPoint /\ UNCHANGED <<navVars, mouseVars, probeVars, lifeVars, mediaVars, extVars>>
SpecBoundary == InitBoundary /\ [][NextBoundary]_vars

InitNav ==
  /\ \E p \in StartPoints : camX = p[1] /\ camZ = p[2]
  /\ velX \in StartSpeeds /\ velZ \in StartSpeeds
  /\ keys = NoKeys /\ rotX = 0 /\ rotY = 0
  /\ frame = NoFrame /\ navFrames = 0 /\ navInputs = 0
  /\ InitBndIdle /\ InitMouseIdle /\ InitProbeIdle /\ InitLifeIdle /\ InitMediaIdle /\ InitExtIdle
NextNav ==
  \/ NavFrame  /\ UNCHANGED <<bndVars, mouseVars, probeVars, lifeVars, mediaVars, extVars>>
  \/ onKeyDown /\ UNCHANGED <<bndVars, mouseVars, probeVars, lifeVars, mediaVars, extVars>>
  \/ onKeyUp   /\ UNCHANGED <<bndVars, mouseVars, probeVars, lifeVars, mediaVars, extVars>>
  \/ LookTo    /\ UNCHANGED <<bndVars, mouseVars, probeVars, lifeVars, mediaVars, extVars>>
SpecNav == InitNav /\ [][NextNav]_vars

InitMouse == InitNavIdle /\ InitBndIdle /\ InitMouseIdle /\ InitProbeIdle /\ InitLifeIdle /\ InitMediaIdle /\ InitExtIdle
mouseFrame == <<camX, camZ, velX, velZ, keys, frame, navFrames, navInputs,
                bndVars, probeVars, lifeRest, mediaVars, extVars>>
NextMouse ==
  \/ addControls    /\ UNCHANGED mouseFrame
  \/ removeControls /\ UNCHANGED mouseFrame
  \/ PointerDown    /\ UNCHANGED mouseFrame
  \/ PointerMove    /\ UNCHANGED mouseFrame
  \/ PointerUp      /\ UNCHANGED mouseFrame
SpecMouse == InitMouse /\ [][NextMouse]_vars

InitLook == InitMouse
NextLook ==
  \/ addControls /\ UNCHANGED mouseFrame
  \/ onMouseDown /\ UNCHANGED mouseFrame
  \/ onMouseMove /\ UNCHANGED mouseFrame
  \/ onMouseUp   /\ UNCHANGED mouseFrame
SpecLook == InitLook /\ [][NextLook]_vars

InitProbe ==
  /\ InitNavIdle /\ InitBndIdle /\ InitMouseIdle /\ InitLifeIdle /\ InitMediaIdle /\ InitExtIdle
  /\ fsPresent \in Folders
  /\ probePc = "idle" /\ probeI = 0 /\ probeImages = <<>> /\ probeRequested = {}
NextProbe ==
  \/ StartProbe /\ UNCHANGED <<navVars, bndVars, mouseVars, lifeVars, mediaVars, extVars>>
  \/ ImgOnLoad  /\ UNCHANGED <<navVars, bndVars, mouseVars, lifeVars, mediaVars, extVars>>
  \/ ImgOnError /\ UNCHANGED <<navVars, bndVars, mouseVars, lifeVars, mediaVars, extVars>>
SpecProbe == InitProbe /\ [][NextProbe]_vars

InitLife == InitNavIdle /\ InitBndIdle /\ InitMouseIdle /\ InitProbeIdle /\ InitLifeIdle /\ InitMediaIdle /\ InitExtIdle
lifeFrame == <<bndVars, mouseVars, probeVars, mediaVars, extVars>>
NextLife ==
  \/ show          /\ UNCHANGED lifeFrame
  \/ hide          /\ UNCHANGED lifeFrame
  \/ hideStep      /\ UNCHANGED lifeFrame
  \/ dispose       /\ UNCHANGED lifeFrame
  \/ Frame         /\ UNCHANGED lifeFrame
  \/ clickOrb      /\ UNCHANGED lifeFrame
  \/ showImageCard /\ UNCHANGED lifeFrame
  \/ closeCard     /\ UNCHANGED lifeFrame
  \/ closeStep     /\ UNCHANGED lifeFrame
  \/ Tick          /\ UNCHANGED lifeFrame
  \/ \E c \in 1..MaxCalls :
       /\ \/ showBuild(c) \/ showReveal(c) \/ showHold(c) \/ showFadeToBlack(c)
          \/ showBlack(c) \/ showFadeOut(c) \/ showFinish(c)
       /\ UNCHANGED lifeFrame
SpecLife == InitLife /\ [][NextLife]_vars

\* show() and hide() with the record of whether a hide() is in effect.
showAfterHide == show /\ hideInEffect' = FALSE
hideTakesEffect == hideStep /\ hideInEffect' = TRUE

InitHide == InitLife
hideFrame == <<bndVars, mouseVars, probeVars, mediaVars, drift, gpu, orbVars, glow,
               scene, cardDom, modal, progress>>
NextHide ==
  \/ showAfterHide   /\ UNCHANGED hideFrame
  \/ hide            /\ UNCHANGED lifeFrame
  \/ hideTakesEffect /\ UNCHANGED hideFrame
  \/ Frame           /\ UNCHANGED lifeFrame
  \/ Tick            /\ UNCHANGED lifeFrame
  \/ \E c \in 1..MaxCalls :
       /\ \/ showBuild(c) \/ showReveal(c) \/ showHold(c) \/ showFadeToBlack(c)
          \/ showBlack(c) \/ showFadeOut(c) \/ showFinish(c)
       /\ UNCHANGED lifeFrame
SpecHide == InitHide /\ [][NextHide]_vars

\* The media card's actions with what they attach to and remove from the
\* hall container.

\* showImageCard(imagePath, caption, orbIndex), whole.
openCard ==
  /\ showImageCard
  /\ cardDom' = IF hasDom THEN [cardDom EXCEPT !.inst = Attach(@)] ELSE cardDom

\* A Close button that is attached is clicked.
closeCardAt ==
  \E i \in 1..Len(cardDom.inst) :
    /\ cardDom.inst[i].rest
    /\ closeCard
    /\ cardDom' = [cardDom EXCEPT !.closing = i]

\* The Close handler's 300 ms timer (lines 3152-3176): the elements of its
\* own showImageCard call are removed.
closeCardStep ==
  /\ closeStep
  /\ cardDom' = [cardDom EXCEPT !.inst[cardDom.closing] = [card |-> FALSE, rest |-> FALSE],
                                !.closing = 0]

InitCard == InitLife
cardFrame == <<bndVars, mouseVars, probeVars, mediaVars, drift, gpu, orbVars, glow,
               scene, hideInEffect, modal, progress>>
NextCard ==
  \/ show          /\ UNCHANGED lifeFrame
  \/ Frame         /\ UNCHANGED lifeFrame
  \/ Tick          /\ UNCHANGED lifeFrame
  \/ clickOrb      /\ UNCHANGED lifeFrame
  \/ openCard      /\ UNCHANGED cardFrame
  \/ closeCardAt   /\ UNCHANGED cardFrame
  \/ closeCardStep /\ UNCHANGED cardFrame
  \/ \E c \in 1..MaxCalls :
       /\ \/ showBuild(c) \/ showReveal(c) \/ showHold(c) \/ showFadeToBlack(c)
          \/ showBlack(c) \/ showFadeOut(c) \/ showFinish(c)
       /\ UNCHANGED lifeFrame
SpecCard == InitCard /\ [][NextCard]_vars

InitModal == InitLife
modalFrame == <<navVars, bndVars, mouseVars, probeVars, lifeVars, mediaVars,
                drift, gpu, orbVars, glow, scene, hideInEffect, cardDom, progress>>
NextModal ==
  \/ open         /\ UNCHANGED modalFrame
  \/ close        /\ UNCHANGED modalFrame
  \/ clearContent /\ UNCHANGED modalFrame
  \/ showNext     /\ UNCHANGED modalFrame
  \/ showPrev     /\ UNCHANGED modalFrame
SpecModal == InitModal /\ [][NextModal]_vars

InitProgress == InitLife
progressFrame == <<navVars, bndVars, mouseVars, probeVars, lifeVars, mediaVars,
                   drift, gpu, orbVars, glow, scene, hideInEffect, cardDom, modal>>
NextProgress ==
  \/ showLoading   /\ UNCHANGED progressFrame
  \/ progressTick  /\ UNCHANGED progressFrame
  \/ progressBuild /\ UNCHANGED progressFrame
  \/ progressDone  /\ UNCHANGED progressFrame
SpecProgress == InitProgress /\ [][NextProgress]_vars

InitDrift ==
  /\ InitNavIdle /\ InitBndIdle /\ InitMouseIdle /\ InitProbeIdle /\ InitLifeIdle
  /\ InitMediaIdle /\ InitGpuIdle /\ InitOrbsIdle /\ InitGlowIdle /\ InitLateIdle
  /\ \E vx \in DriftStarts, vz \in DriftStarts :
       drift = [NoDrift EXCEPT !.x = vx, !.z = vz, !.x0 = vx, !.z0 = vz]
NextDrift ==
  driftFrame /\ UNCHANGED <<navVars, bndVars, mouseVars, probeVars, lifeVars, mediaVars, gpu, orbVars, glow, lateVars>>
SpecDrift == InitDrift /\ [][NextDrift]_vars

InitGpu ==
  /\ InitNavIdle /\ InitBndIdle /\ InitMouseIdle /\ InitProbeIdle /\ InitLifeIdle
  /\ InitMediaIdle /\ InitDriftIdle /\ InitGpuIdle /\ InitOrbsIdle /\ InitGlowIdle
  /\ InitLateIdle
gpuFrame == <<navVars, bndVars, mouseVars, probeVars, lifeVars, mediaVars, drift, orbVars, glow, lateVars>>
NextGpu ==
  \/ gpuCleanup /\ UNCHANGED gpuFrame
  \/ gpuBuild   /\ UNCHANGED gpuFrame
  \/ gpuDispose /\ UNCHANGED gpuFrame
SpecGpu == InitGpu /\ [][NextGpu]_vars

InitOrbs ==
  /\ InitNavIdle /\ InitBndIdle /\ InitMouseIdle /\ InitProbeIdle /\ InitLifeIdle
  /\ InitMediaIdle /\ InitDriftIdle /\ InitGpuIdle /\ InitOrbsIdle /\ InitGlowIdle
  /\ InitLateIdle
orbsFrame == <<navVars, bndVars, mouseVars, probeVars, lifeVars, mediaVars, drift, gpu, glow, lateVars>>
NextOrbs ==
  \/ createMemoryOrbs /\ UNCHANGED orbsFrame
  \/ emptyOrbs        /\ UNCHANGED orbsFrame
  \/ showOrbContent   /\ UNCHANGED orbsFrame
SpecOrbs == InitOrbs /\ [][NextOrbs]_vars

\* this.time is never reset: a hall is built at whatever time it is.
GlowStarts == {0, 40, 90, 140}
InitGlow ==
  /\ InitNavIdle /\ InitBndIdle /\ InitMouseIdle /\ InitProbeIdle /\ InitLifeIdle
  /\ InitMediaIdle /\ InitDriftIdle /\ InitGpuIdle /\ InitOrbsIdle /\ InitLateIdle
  /\ \E n0 \in GlowStarts : glow = [NoGlow EXCEPT !.n = n0]
NextGlow ==
  glowFrame /\ UNCHANGED <<navVars, bndVars, mouseVars, probeVars, lifeVars, mediaVars,
                           drift, gpu, orbVars, lateVars>>
\* Frames keep running: the browser keeps calling animate.
SpecGlow == InitGlow /\ [][NextGlow]_vars /\ WF_vars(NextGlow)

InitMedia == InitNavIdle /\ InitBndIdle /\ InitMouseIdle /\ InitProbeIdle /\ InitLifeIdle /\ InitMediaIdle /\ InitExtIdle
mediaFrame == <<navVars, bndVars, mouseVars, probeVars, lifeVars, extVars>>
NextMedia ==
  \/ createOrb        /\ UNCHANGED mediaFrame
  \/ onLoadedData     /\ UNCHANGED mediaFrame
  \/ onVideoError     /\ UNCHANGED mediaFrame
  \/ probeResolves    /\ UNCHANGED mediaFrame
  \/ slideTickBound   /\ UNCHANGED mediaFrame
  \/ slideTickUnbound /\ UNCHANGED mediaFrame
  \/ fadeTick         /\ UNCHANGED mediaFrame
  \/ cleanupOrbs      /\ UNCHANGED mediaFrame
  \/ clearOrbs        /\ UNCHANGED mediaFrame
  \/ disposeOrbs      /\ UNCHANGED mediaFrame
SpecMedia == InitMedia /\ [][NextMedia]_vars

----------------------------------------------------------------------------
(* show() together with the media of the hall it builds.  The host calls    *)
(* show() and nothing else; the orb's video and image requests answer, fail *)
(* or stay unanswered.  The slideshow and crossfade ticks, which start only *)
(* after an answer, are left to SpecMedia.                                  *)

\* A mutation of AwaitsMedia: show() waits for the orb's pending requests.
AwaitsMediaPending(o) == o.vid = "loading" \/ o.probes > 0

\* show() line 2084 calls createTShapedFloor() without await, and createOrb
\* keeps none of the promises of its media requests: no state of an orb
\* holds show() back.
AwaitsMedia(o) == FALSE

\* show() with the orb loop of its cleanupSceneContent() call (line 2051).
showOverOrbs ==
  /\ show
  /\ IF orb.st = "live" THEN cleanupOrbs ELSE UNCHANGED mediaVars

\* The hall is built: createMemoryOrbs replaces the orbs, createOrb starts
\* the new orb's media requests.
showBuildOrbs(c) ==
  /\ showBuild(c)
  /\ IF hall' = "built"
     THEN \E folder \in BOOLEAN, videoOk \in BOOLEAN, files \in 0..MaxOrbFiles :
            /\ folder \/ (~videoOk /\ files = 0)
            /\ orb' = NewOrb(folder, videoOk, files)
     ELSE UNCHANGED orb
  /\ UNCHANGED fades

\* The steps of show() after the build.
showStep(c) ==
  \/ ~AwaitsMedia(orb) /\ showReveal(c)
  \/ showHold(c) \/ showFadeToBlack(c) \/ showBlack(c) \/ showFadeOut(c)
  \/ showFinish(c)

InitShow == InitLife
showFrame == <<bndVars, mouseVars, probeVars, extVars>>
NextShow ==
  \/ showOverOrbs  /\ UNCHANGED showFrame
  \/ Tick          /\ UNCHANGED lifeFrame
  \/ onLoadedData  /\ UNCHANGED mediaFrame
  \/ onVideoError  /\ UNCHANGED mediaFrame
  \/ probeResolves /\ UNCHANGED mediaFrame
  \/ \E c \in 1..MaxCalls :
       \/ showBuildOrbs(c) /\ UNCHANGED showFrame
       \/ showStep(c) /\ UNCHANGED lifeFrame
\* The delays of show() are timers of the page: time passes, and a timer that
\* is due fires.  Nothing makes a media request answer.
SpecShow ==
  /\ InitShow /\ [][NextShow]_vars
  /\ WF_vars(Tick /\ UNCHANGED lifeFrame)
  /\ \A c \in 1..MaxCalls :
       /\ WF_vars(showBuildOrbs(c) /\ UNCHANGED showFrame)
       /\ WF_vars(showStep(c) /\ UNCHANGED lifeFrame)

\* show() with what its init() and cleanupSceneContent() calls do to the
\* scene (lines 2046-2051).
showOverScene ==
  /\ show
  /\ scene' = sceneCleanup(IF hasDom THEN scene ELSE sceneInit(scene))

\* The hall is built: createTShapedFloor adds its objects to the scene.
showBuildScene(c) ==
  /\ showBuild(c)
  /\ scene' = IF hasDom THEN sceneBuild(scene) ELSE scene

InitScene == InitLife
sceneFrame == <<bndVars, mouseVars, probeVars, mediaVars, drift, gpu, orbVars, glow,
                hideInEffect, cardDom, modal, progress>>
NextScene ==
  \/ showOverScene /\ UNCHANGED sceneFrame
  \/ Tick          /\ UNCHANGED lifeFrame
  \/ \E c \in 1..MaxCalls :
       \/ showBuildScene(c) /\ UNCHANGED sceneFrame
       \/ showStep(c) /\ UNCHANGED lifeFrame
SpecScene == InitScene /\ [][NextScene]_vars

----------------------------------------------------------------------------
(* Claims on the boundary test and on updateCamera *)

\* C3 (as claimed): every point is accepted by the movement-boundary test of
\* updateCamera if and only if it lies on one of the three floor rectangles
\* createTShapedFloor builds.
C3_BoundaryEqualsFloor ==
  probe.tested => (probe.accepted <=> probe.onFloor)

\* The last frame's candidate position moved on both axes and was refused.
FrameDiagonalBlocked ==
  /\ frame.valid
  /\ frame.newX # frame.prevX /\ frame.newZ # frame.prevZ
  /\ ~MoveAccepts(frame.newX, frame.newZ)

\* In the last frame only the Z axis / only the X axis was blocked.
OnlyZBlocked == /\ MoveAccepts(frame.newX, frame.prevZ)
                /\ ~MoveAccepts(frame.prevX, frame.newZ)
OnlyXBlocked == /\ ~MoveAccepts(frame.newX, frame.prevZ)
                /\ MoveAccepts(frame.prevX, frame.newZ)

\* C8: a frame that moves diagonally into a boundary with exactly one axis
\* blocked displaces the camera along the free axis only (by the nonzero
\* candidate step), zeroes the velocity of the blocked axis and keeps the
\* (post-friction) velocity of the free axis.
C8_WallSlide ==
  FrameDiagonalBlocked =>
    /\ OnlyZBlocked => /\ camX = frame.newX /\ camX # frame.prevX
                       /\ camZ = frame.prevZ
                       /\ velZ = 0 /\ velX = frame.vx /\ velX # 0
    /\ OnlyXBlocked => /\ camZ = frame.newZ /\ camZ # frame.prevZ
                       /\ camX = frame.prevX
                       /\ velX = 0 /\ velZ = frame.vz /\ velZ # 0

\* A frame slid along a wall that blocks Z, after at least one input event.
C8_Witness ==
  /\ FrameDiagonalBlocked /\ OnlyZBlocked
  /\ camX # frame.prevX /\ velZ = 0 /\ navInputs > 0

\* The other wall-slide case is reached too.
C8_WitnessXBlocked ==
  /\ FrameDiagonalBlocked /\ OnlyXBlocked
  /\ camZ # frame.prevZ /\ velX = 0

\* In the last frame the candidate, the X-only and the Z-only position were
\* all refused by the boundary test.
FrameAllBlocked ==
  /\ frame.valid
  /\ ~MoveAccepts(frame.newX, frame.newZ)
  /\ ~MoveAccepts(frame.newX, frame.prevZ)
  /\ ~MoveAccepts(frame.prevX, frame.newZ)

\* C20: when updateCamera finds the candidate position, the X-only position
\* and the Z-only position all outside the boundary, the camera's x and z
\* are what they were before the frame and both velocity components are zero
\* (the y component is never anything but zero).
C20_CornerStops ==
  FrameAllBlocked =>
    /\ camX = frame.prevX /\ camZ = frame.prevZ
    /\ velX = 0 /\ velZ = 0

\* A frame ran into a corner at speed: the candidate differed from the
\* position on both axes, the post-friction velocity was nonzero on both.
C20_Witness ==
  /\ FrameAllBlocked
  /\ frame.newX # frame.prevX /\ frame.newZ # frame.prevZ
  /\ frame.vx # 0 /\ frame.vz # 0
  /\ camX = frame.prevX /\ camZ = frame.prevZ /\ velX = 0 /\ velZ = 0

\* Squared magnitude of a velocity of (x, z) units.
Mag2(x, z) == x * x + z * z

\* The largest component magnitude that friction leaves as it is: k times
\* FrictionPct / 100 rounds to k exactly when k * (100 - FrictionPct) < 50.
DriftFloor == 49 \div (100 - FrictionPct)

\* C15 (as claimed): with no direction key held, every frame that starts
\* with a nonzero velocity ends with a velocity of strictly smaller
\* magnitude.
C15_StrictlyDecreases ==
  (drift.valid /\ Mag2(drift.px, drift.pz) # 0) =>
    Mag2(drift.x, drift.z) < Mag2(drift.px, drift.pz)

\* C15 (amended): with no direction key held, no frame increases a velocity
\* component; the magnitude strictly decreases on every frame that starts
\* with a component above the floor of 6 units of 2^-1074; a velocity whose
\* components are all at or below the floor is left as it is; and after 60
\* frames each component is below 1% of its starting value plus that floor.
C15_DecreasesDownToFloor ==
  drift.valid =>
    /\ Abs(drift.x) <= Abs(drift.px) /\ Abs(drift.z) <= Abs(drift.pz)
    /\ (Abs(drift.px) > DriftFloor \/ Abs(drift.pz) > DriftFloor) =>
          Mag2(drift.x, drift.z) < Mag2(drift.px, drift.pz)
    /\ (Abs(drift.px) <= DriftFloor /\ Abs(drift.pz) <= DriftFloor) =>
          (drift.x = drift.px /\ drift.z = drift.pz)
    /\ drift.n >= MaxDriftFrames - 1 =>
          /\ 100 * Abs(drift.x) <= Abs(drift.x0) + 100 * DriftFloor
          /\ 100 * Abs(drift.z) <= Abs(drift.z0) + 100 * DriftFloor

\* Sixty frames of friction have brought a velocity that started far above
\* the floor down to it, and the last frame left it there.
C15_Witness ==
  /\ drift.valid /\ drift.n >= MaxDriftFrames - 1
  /\ Abs(drift.x0) > 10 * DriftFloor
  /\ Abs(drift.x) = DriftFloor /\ drift.px = drift.x

\* A frame above the floor: the magnitude went down.
C15_WitnessDecrease ==
  /\ drift.valid /\ Abs(drift.px) > DriftFloor
  /\ Mag2(drift.x, drift.z) < Mag2(drift.px, drift.pz)

----------------------------------------------------------------------------
(* Claims on the pointer handlers and on the image probe *)

\* C7 (as claimed): on every mouse-up the handlers see, a ray-pick
\* (checkOrbClick) is attempted if and only if the pointer went up less than
\* 5 pixels from where it went down for this press.
C7_PickIffPressMovedLessThan5 ==
  lastUp.seen =>
    (lastUp.picked <=> lastUp.moved2 < ClickThreshold * ClickThreshold)

SeqUpTo(n) == [i \in 1..n |-> i]

\* C5 (as claimed): the probe resolves exactly 1.jpg..k.jpg in ascending
\* order, k the largest index such that every index 1..k loads, and requests
\* no index after the first gap.
C5_ResolvesWholePrefix ==
  probePc = "done" =>
    /\ probeImages = SeqUpTo(ContigPrefix(fsPresent))
    /\ probeRequested \subseteq 1..(ContigPrefix(fsPresent) + 1)

\* C5 (amended): the probe resolves exactly 1.jpg..k.jpg in ascending order,
\* k the largest index not above maxImages = 20 such that every index 1..k
\* loads; it requests 1..k+1 and nothing else (1..20 when k = 20); with 1-3
\* present and 4 absent the list has exactly 3 entries.
C5_ResolvesPrefixUpToCap ==
  probePc = "done" =>
    LET k == Min(ContigPrefix(fsPresent), MaxImages)
    IN /\ probeImages = SeqUpTo(k)
       /\ probeRequested = 1..Min(k + 1, MaxImages)
       /\ ({1, 2, 3} \subseteq fsPresent /\ 4 \notin fsPresent => Len(probeImages) = 3)

\* The probe finished on a folder holding 1-3, not 4, and a file after the gap.
C5_Witness ==
  /\ probePc = "done"
  /\ {1, 2, 3, 5} \subseteq fsPresent /\ 4 \notin fsPresent
  /\ Len(probeImages) = 3 /\ 4 \in probeRequested

----------------------------------------------------------------------------
(* Claims on the life cycle *)

\* C4 (as claimed): at most one requestAnimationFrame request for animate is
\* pending at any time, after any sequence of show(), card open / close and
\* hide() calls.
C4_OneFrameRequestPending == Cardinality(rafPending) <= 1

HandshakeOrder == <<"lsShow", "built", "visible", "fadeResolved", "opacity0", "lsHide">>

IsPrefix(a, b) == Len(a) <= Len(b) /\ \A i \in 1..Len(a) : a[i] = b[i]

\* C9 (as claimed): the events of every show() occur in the handshake order;
\* the hall container is never displayed while the hall is not built; no
\* loading screen is removed before its fadeToBlack() has resolved.
C9_LoadingHandshake ==
  /\ \A c \in 1..MaxCalls : IsPrefix(calls[c].log, HandshakeOrder)
  /\ shown => hall = "built"
  /\ \A c \in 1..MaxCalls :
       calls[c].ls = "hidden" =>
         \E i \in 1..Len(calls[c].log) : calls[c].log[i] = "fadeResolved"

\* C10 (as claimed): no dispose() call and no callback scheduled by a
\* teardown raises an error.
C10_TeardownRaisesNoError == thrown \cap {"dispose", "hideStep"} = {}

----------------------------------------------------------------------------
(* Claims on the orb media *)

\* C1 (as claimed): after cleanupSceneContent has torn the orb down, no
\* slideshow interval and no crossfade interval of the orb is active, and
\* nothing has written to its canvas since.
C1_NoTimerAfterCleanup ==
  orb.tornBy = "cleanup" =>
    /\ orb.slidesBound + orb.slidesUnbound = 0
    /\ fades = <<>>
    /\ ~orb.lateWrite

\* C2 (as claimed): at no time are two crossfade intervals active that
\* redraw the orb's canvas.
C2_OneCrossfade == Len(fades) <= 1

C6_WitnessFallback ==
  /\ orb.st = "live" /\ orb.folder /\ orb.probeZero /\ orb.fallbackDrawn

\* C12 (as claimed): after dispose() has run over the orbs, no slideshow
\* interval and no crossfade interval of the orb is active, and its video
\* element, if it has one, has been paused and detached from its source.
C12_DisposeStopsTimers ==
  orb.tornBy = "dispose" =>
    /\ orb.slidesBound + orb.slidesUnbound = 0
    /\ fades = <<>>
    /\ orb.vid \in {"none", "emptied", "dead"}

C14_IntervalIffSeveralImages ==
  /\ (orb.slidesBound + orb.slidesUnbound > 0) =>
        (orb.slideshowStarted /\ Resolved(orb.files) > 1)
  /\ (orb.slideshowStarted /\ Resolved(orb.files) = 1) =>
        (orb.slidesBound + orb.slidesUnbound = 0 /\ fades = <<>>)
  /\ (orb.st = "live" /\ orb.slideshowStarted /\ Resolved(orb.files) > 1) =>
        (orb.slidesBound = 1 /\ orb.slidesUnbound = 0)
  /\ fades # <<>> => Resolved(orb.files) > 1

\* A live orb with 1.jpg and 2.jpg runs its slideshow interval.
C14_Witness ==
  /\ orb.st = "live" /\ orb.files = 2 /\ Resolved(orb.files) = 2
  /\ orb.slideshowStarted /\ orb.slidesBound = 1

\* A live orb with 1.jpg alone drew it and has no interval.
C14_WitnessSingle ==
  /\ orb.st = "live" /\ orb.files = 1 /\ orb.slideshowStarted
  /\ orb.slidesBound + orb.slidesUnbound = 0 /\ fades = <<>>

----------------------------------------------------------------------------
(* Claims on the GPU-side resources *)

\* The hall of the latest build has been torn down by cleanupSceneContent or
\* by dispose(): this.orbs and this.edges no longer hold its objects.
HallTornDown == gpu.built > 0 /\ ~gpu.orbsHeld /\ ~gpu.edgesHeld

\* C11 (as claimed): once a hall has been torn down, and for every hall that
\* has been replaced by a later build, each orb canvas texture, orb material,
\* platform texture, floor material, floor texture and edge material has had
\* dispose() called on it exactly once.
C11_DisposedExactlyOnce ==
  /\ HallTornDown => \A k \in GpuKinds : gpu.n[k] = 1
  /\ \A i \in 1..Len(gpu.retired) : \A k \in GpuKinds : gpu.retired[i][k] = 1

----------------------------------------------------------------------------
(* Claims on the orb list *)

\* The fixed order of the content keys: overview, gallery, technologies,
\* details, links, contact, placeholder1..placeholder21.
FixedKey(i) ==
  IF i <= 6
  THEN <<(<<"overview", "gallery", "technologies", "details", "links", "contact">>)[i], 0>>
  ELSE <<"placeholder", i - 6>>

\* C17: after every run of createMemoryOrbs the list holds exactly 27 orbs
\* (the list is empty between teardown and the next build, never longer),
\* the orb at position i carries the i-th key of the fixed order, and the
\* key showOrbContent resolves from a clicked orb's index is the key that
\* orb was created with.
C17_OrbTable ==
  /\ Len(orbs) \in {0, 27}
  /\ \A i \in 1..Len(orbs) : orbs[i].cardKey = FixedKey(i)
  /\ picked.seen => picked.key = picked.created

\* The hall has been built at least twice, and the last orb of the list
\* (placeholder21) was clicked.
C17_Witness ==
  /\ orbBuilds >= 2 /\ Len(orbs) = 27
  /\ picked.seen /\ picked.index = 26 /\ picked.key = <<"placeholder", 21>>

----------------------------------------------------------------------------
(* Claims on the edge glow *)

\* C18 (as claimed): while frames keep running, the opacity of every glow
\* mesh of the edge list is reassigned by the pulse again and again.
C18_GlowKeepsPulsing ==
  \A i \in GlowEdges : []<>(glow.touched[i])

----------------------------------------------------------------------------
(* Claims on the media card and on show() *)

\* C19 (as claimed): while a media card is open (from showImageCard to the
\* step of its close handler that removes it) no step runs animate past its
\* guard, which would give animationFrameId a new request id; and the step
\* that removes the card leaves exactly one frame request pending if the
\* hall is active.
C19_CardPausesFrames ==
  [][ /\ (cardOpen > 0 /\ cardOpen' > 0) =>
           (animationFrameId' = animationFrameId \/ animationFrameId' = 0)
      /\ (cardOpen > 0 /\ cardOpen' = 0 /\ isActive') =>
           Cardinality(rafPending') = 1 ]_vars

\* A show() call has come to its end: loading screen hidden, back button and
\* controls attached, hall displayed and active.
Completed(c) ==
  /\ calls[c].pc = "done" /\ calls[c].ls = "hidden"
  /\ controlsOn /\ shown /\ isActive

\* C16: under fair firing of its delays every show() call comes to its end,
\* whatever the orb's video and image requests do (answer, fail, or stay
\* unanswered).
C16_ShowCompletes ==
  \A c \in 1..MaxCalls : InProgress(c) ~> Completed(c)

\* A show() call has completed while the video request of the hall's orb is
\* still unanswered.
C16_Witness ==
  \E c \in 1..MaxCalls :
    Completed(c) /\ orb.st = "live" /\ orb.vid = "loading"

----------------------------------------------------------------------------
(* Claims on the look drag, late media answers and the camera position *)

\* C21: after any sequence of mouse-down, mouse-move and mouse-up events the
\* pitch cameraRotation.x lies within a quarter turn of level, both ways.
C21_PitchClamped == -Pi2 <= rotX /\ rotX <= Pi2

\* A drag has been cut off at the limit: the pitch is exactly a quarter turn
\* down, which no sum of pointer steps equals.
C21_Witness == rotX = -Pi2 /\ isMouseDown /\ lastMouse # mouseDown

\* C22 (as claimed): a media answer delivered after the orb's hall has been
\* torn down (the video's error event, the end of an image probe) starts no
\* slideshow interval and writes to no canvas of the torn-down hall.
C22_LateAnswerHasNoEffect ==
  [][ (orb.st = "torn" /\ orb'.probes # orb.probes) =>
        /\ orb'.slidesBound + orb'.slidesUnbound = orb.slidesBound + orb.slidesUnbound
        /\ orb'.lateWrite = orb.lateWrite ]_vars

\* C23: the camera's (x, z) position passes the movement-boundary test in
\* every state, from the spawn point of show() on, whatever keys are pressed
\* and released, wherever the camera looks and however many frames run; the
\* position is then on the visible floor as well.
C23_CameraInsideBoundary == MoveAccepts(camX, camZ) /\ OnFloor(camX, camZ)

\* A frame's candidate position failed the test and the camera slid along
\* the wall to a position that passes it.
C23_Witness ==
  /\ frame.valid /\ ~MoveAccepts(frame.newX, frame.newZ)
  /\ (camX # frame.prevX \/ camZ # frame.prevZ)
  /\ MoveAccepts(camX, camZ)

----------------------------------------------------------------------------
(* Claims on the scene graph *)

\* The scene holds exactly one hall: one set of each kind a build adds.
OneHall(s) == \A k \in HallKinds : s.n[k] = 1

\* C24 (as claimed): when show() was called again while an earlier show()
\* was in progress and both calls have completed, the scene holds exactly
\* one hall (orbs, title banner with its lights, arc particles, ...), no
\* loading screen is left and no timer of either call is running.
C24_OneHallAfterOverlap ==
  (\A c \in 1..MaxCalls : calls[c].pc = "done") =>
    /\ OneHall(scene)
    /\ \A c \in 1..MaxCalls : calls[c].ls = "hidden" /\ ~calls[c].progOn

\* C28 (as claimed): the objects init() made (ambient, directional and
\* hemisphere light, the five reflection point lights, starfield, moon) are
\* in the scene after any number of show() calls.
C28_InitObjectsKept ==
  scene.made =>
    /\ scene.base = BaseLights /\ scene.reflection = ReflectionLights
    /\ scene.stars = 1 /\ scene.moon = 1

----------------------------------------------------------------------------
(* Claims on hide() *)

\* C25 (as claimed): once hide()'s delayed step has run, and until show() is
\* called again, the hall is inactive: isActive is false (so no frame is
\* rendered), the container is hidden and the controls are removed, also
\* when a show() call was in progress at the time of hide().
C25_StaysInactive ==
  hideInEffect => (~isActive /\ ~shown /\ ~controlsOn)

----------------------------------------------------------------------------
(* Claims on the media card *)

\* Some element of the i-th showImageCard call is attached to the container.
Attached(i) == cardDom.inst[i].card \/ cardDom.inst[i].rest

\* C26 (as claimed): while a media card is open, no mouse-up leads to a
\* ray-pick that finds an orb and starts loading that orb's card.
C26_NoPickWhileCardOpen ==
  [][ (\E i \in 1..Len(cardDom.inst) : Attached(i)) =>
        envCalls'.click = envCalls.click ]_vars

\* C27 (as claimed): at any time the elements of at most one showImageCard
\* call are attached to the hall container, and they are all there: the
\* card with its backdrop, caption, navigation and Close button.
C27_OneCompleteCard ==
  /\ Cardinality({ i \in 1..Len(cardDom.inst) : Attached(i) }) <= 1
  /\ \A i \in 1..Len(cardDom.inst) :
       Attached(i) => (cardDom.inst[i].card /\ cardDom.inst[i].rest)

----------------------------------------------------------------------------
(* Claims on the media dialog *)

\* C29 (as claimed): whenever the modal is open, currentImages is the
\* non-empty list given to the most recent open() and currentIndex is a valid
\* index into it, for every interleaving of open, close, showNext, showPrev
\* and the delayed content clear.
C29_OpenModalConsistent ==
  modal.isOpen =>
    /\ modal.currentImages # <<>>
    /\ modal.currentImages = modal.opened
    /\ modal.currentIndex \in 0..(Len(modal.currentImages) - 1)

----------------------------------------------------------------------------
(* Claims on the loading progress *)

\* C30 (as claimed): over the loading phase of show() the values passed to
\* setProgress never decrease, the last one is 100, and none is passed after
\* 100.
C30_ProgressNeverDecreases ==
  /\ ~progress.fell
  /\ ~progress.late
  /\ progress.phase = "done" => progress.last = 100

====
